---- MODULE Spec2Model ----
(***************************************************************************)
(* A model of the GPU kernel extraction stage of ppcg (src/gpu.c):         *)
(* the shared-memory budget, the copy/sync schedule ranks, the tile and    *)
(* wrap relations, the effective grid/block size and the block/thread      *)
(* dimension counts of a kernel.                                           *)
(***************************************************************************)
EXTENDS Integers, Sequences, FiniteSets, TLC

(***************************************************************************)
(* Bounds of the model.                                                    *)
(***************************************************************************)
MaxGroups == 3
MaxTile == 1
MaxElem == 2
MaxBudget == 4
MaxSchedGroups == 2
MaxLevels == 1
MaxFirst == 1
MaxIter == 1
MaxLen == 2
MaxTileLen == 1
MaxCoord == 1
MaxSize == 2
MaxDims == 1
MaxSched == 1
MaxConf == 3
MaxParam == 1
MaxInst == 2
MaxBand == 4
MaxUserDims == 3
MaxUserSize == 1
MaxChildren == 2
MaxChain == 1
MaxMembers == 1
MaxFrags == 2
MaxEdges == 1
MaxSchedDims == 1
MaxRefElem == 2
MaxIndex == 2
MaxPath == 4
MaxUp == 1
MaxSharedLen == 1
MaxWindow == 2
MaxRest == 1
MaxArrays == 2
MaxSpaces == 3
MaxPoint == 4
MaxTileSize == 5
MaxGridDim == 2
MaxBlockDim == 3
MaxHost == 1
MaxIdInst == 2

VARIABLES
    pc,                 \* position of the modelled call: "start" or "done"
    orig,               \* the reference groups as handed to the call
    groups,             \* kernel->array[i].groups[j], in encounter order
    max_shared_memory,  \* kernel->options->max_shared_memory
    tile_first,         \* gen->tile_first
    shared_len,         \* gen->shared_len
    res,                \* the schedule built by body_schedule
    len,                \* tile/wrap: the dimension of the input space
    first,              \* tile/wrap: the first tiled coordinate
    tile_len,           \* tile/wrap: the number of tiled coordinates
    tile_size,          \* tile/wrap: the size in each tiled coordinate
    point,              \* an element of the input space
    image,              \* an element the relation maps "point" to
    n_ids,              \* the number of members of the band that is mapped
    conf_size,          \* the configured size (grid_dim or block_dim)
    domain,             \* the statement instances of the kernel
    grid_size,          \* kernel->grid_size
    block_dim,          \* kernel->block_dim after extract_block_size
    band,               \* the coincident flags of the selected band
    sizes,              \* gen->sizes: the user specified sizes per type
    options,            \* gen->options
    kernel,             \* the ppcg_kernel built by create_kernel
    any_parallelism,    \* gen->any_parallelism
    n_child,            \* the number of children of the root of the schedule
    child_pos,          \* the children select_outer_band has handled
    host_ok,            \* the schedule node / gen->host_schedule is not NULL
    marks,              \* the kernel marks of the schedule tree, in order
    kern,               \* the ppcg_kernel objects and their identifiers
    gen_kernel,         \* gen->kernel (0 is NULL)
    kernel_mark,        \* gen->kernel_mark (0 is NULL)
    mark_pos,           \* the marks the AST generator has handled
    ast,                \* gen->tree: the launch nodes of the host AST
    ast_ok,             \* gen->tree is not NULL
    path,               \* the output path generate() ran for the fragment
    hist,               \* what happened while handling the fragment
    dep,                \* the dependences of gen->prog and gen->prog->scop
    live_range_reordering,  \* gen->options->live_range_reordering
    sc,                 \* the schedule constraints of compute_schedule
    schedule,           \* the schedule computed from the constraints
    expr,               \* the access expression handed to extract_access
    data,               \* the ppcg_extract_access_data of extract_access
    access,             \* the gpu_stmt_access extract_access appends
    pa,                 \* the pet_array handed to extract_array_info
    linearize_device_arrays,  \* prog->scop->options->linearize_device_arrays
    info,               \* the gpu_array_info extract_array_info fills in
    walk,               \* the walk of select_outer_band over the schedule tree
    sched_node,         \* the node atomic_ancestors is called on and returns
    ugen,               \* gen and gen->kernel in interchange_for_unroll
    ast_leaf,           \* the schedule at a kernel leaf, its statement
    idmap  \* the block and thread identifiers of the instances of a kernel

memVars == <<orig, max_shared_memory>>
schedVars == <<tile_first, shared_len, res>>

tileVars == <<len, first, tile_len, tile_size, point, image>>

gridVars == <<n_ids, conf_size, domain, grid_size, block_dim>>
kernelVars == <<band, sizes, options, kernel>>
genVars == <<any_parallelism, n_child, child_pos, host_ok, marks, kern,
             gen_kernel, kernel_mark, mark_pos, ast, ast_ok, path, hist>>

\* The variables of the parts modelled further down.
depVars == <<dep, live_range_reordering, sc, schedule>>
accessVars == <<expr, data, access>>
arrayVars == <<pa, linearize_device_arrays, info>>
walkVars == <<walk>>
nodeVars == <<sched_node>>
unrollVars == <<ugen>>
leafVars == <<ast_leaf>>
idVars == <<idmap>>
progVars == <<accessVars, arrayVars, walkVars, nodeVars, unrollVars, leafVars, idVars>>
laterVars == <<genVars, depVars, progVars>>

vars == <<pc, orig, groups, max_shared_memory, tile_first, shared_len, res,
          len, first, tile_len, tile_size, point, image,
          n_ids, conf_size, domain, grid_size, block_dim,
          band, sizes, options, kernel, genVars, depVars, progVars>>

\* The state of the parts of the generator a call does not touch.
MemIdle == orig = <<>> /\ max_shared_memory = -1
SchedIdle == tile_first = 0 /\ shared_len = 0 /\ res = {}
TileIdle ==
    /\ len = 0 /\ first = 0 /\ tile_len = 0
    /\ tile_size = <<>> /\ point = <<>> /\ image = <<>>
GridIdle ==
    /\ n_ids = 0 /\ conf_size = <<>> /\ domain = {}
    /\ grid_size = <<>> /\ block_dim = <<>>
KernelIdle ==
    band = <<>> /\ sizes = <<>> /\ options = <<>> /\ kernel = <<>>
GenIdle ==
    /\ any_parallelism = FALSE /\ n_child = 0 /\ child_pos = 0
    /\ host_ok = FALSE /\ marks = <<>> /\ kern = <<>>
    /\ gen_kernel = 0 /\ kernel_mark = 0 /\ mark_pos = 0
    /\ ast = <<>> /\ ast_ok = FALSE /\ path = "none" /\ hist = <<>>
DepIdle ==
    /\ dep = <<>> /\ live_range_reordering = FALSE
    /\ sc = <<>> /\ schedule = <<>>
AccessIdle == expr = <<>> /\ data = <<>> /\ access = <<>>
ArrayIdle == pa = <<>> /\ linearize_device_arrays = 0 /\ info = <<>>
WalkIdle == walk = <<>>
NodeIdle == sched_node = <<>>
UnrollIdle == ugen = <<>>
LeafIdle == ast_leaf = <<>>
IdIdle == idmap = <<>>
ProgIdle == AccessIdle /\ ArrayIdle /\ WalkIdle /\ NodeIdle /\ UnrollIdle /\ LeafIdle /\ IdIdle
LaterIdle == GenIdle /\ DepIdle /\ ProgIdle

\* The variables of the parts modelled above the generator, and their
\* state while the generator runs.
coreVars == <<orig, groups, max_shared_memory, tile_first, shared_len, res,
              tileVars, gridVars, kernelVars>>
CoreIdle ==
    /\ groups = <<>> /\ MemIdle /\ SchedIdle /\ TileIdle /\ GridIdle
    /\ KernelIdle

\* What a call of one part leaves alone, and its state during the call.
accessRest == <<coreVars, genVars, depVars, arrayVars, walkVars, nodeVars, unrollVars, leafVars, idVars>>
AccessRestIdle == CoreIdle /\ GenIdle /\ DepIdle /\ ArrayIdle /\ WalkIdle /\ NodeIdle /\ UnrollIdle /\ LeafIdle /\ IdIdle
arrayRest == <<coreVars, genVars, depVars, accessVars, walkVars, nodeVars, unrollVars, leafVars, idVars>>
ArrayRestIdle == CoreIdle /\ GenIdle /\ DepIdle /\ AccessIdle /\ WalkIdle /\ NodeIdle /\ UnrollIdle /\ LeafIdle /\ IdIdle
walkRest == <<coreVars, genVars, depVars, accessVars, arrayVars, nodeVars, unrollVars, leafVars, idVars>>
WalkRestIdle == CoreIdle /\ GenIdle /\ DepIdle /\ AccessIdle /\ ArrayIdle /\ NodeIdle /\ UnrollIdle /\ LeafIdle /\ IdIdle
nodeRest == <<coreVars, genVars, depVars, accessVars, arrayVars, walkVars, unrollVars, leafVars, idVars>>
NodeRestIdle == CoreIdle /\ GenIdle /\ DepIdle /\ AccessIdle /\ ArrayIdle /\ WalkIdle /\ UnrollIdle /\ LeafIdle /\ IdIdle
unrollRest == <<coreVars, genVars, depVars, accessVars, arrayVars, walkVars, nodeVars, leafVars, idVars>>
UnrollRestIdle == CoreIdle /\ GenIdle /\ DepIdle /\ AccessIdle /\ ArrayIdle /\ WalkIdle /\ NodeIdle /\ LeafIdle /\ IdIdle
leafRest == <<coreVars, genVars, depVars, accessVars, arrayVars, walkVars, nodeVars, unrollVars, idVars>>
LeafRestIdle == CoreIdle /\ GenIdle /\ DepIdle /\ AccessIdle /\ ArrayIdle /\ WalkIdle /\ NodeIdle /\ UnrollIdle /\ IdIdle
idRest == <<coreVars, genVars, depVars, accessVars, arrayVars, walkVars, nodeVars, unrollVars, leafVars>>
IdRestIdle == CoreIdle /\ GenIdle /\ DepIdle /\ AccessIdle /\ ArrayIdle /\ WalkIdle /\ NodeIdle /\ UnrollIdle /\ LeafIdle

(***************************************************************************)
(* Generic helpers.                                                        *)
(***************************************************************************)
RECURSIVE SumSeq(_)
SumSeq(s) == IF s = <<>> THEN 0 ELSE Head(s) + SumSeq(Tail(s))

SeqsUpTo(S, n) == UNION {[1..m -> S] : m \in 0..n}

(***************************************************************************)
(* Array reference groups and the shared memory budget.                    *)
(***************************************************************************)

\* group->shared_tile == NULL
NoTile == 0

\* One array reference group: whether it has a private tile, the size of
\* its shared tile (NoTile when it has none) and the element size of its
\* array.
Group == [private_tile : BOOLEAN, shared_tile : 0..MaxTile, size : 1..MaxElem]

\* size = gpu_array_tile_size(shared_tile) * array->size
Footprint(g) == g.shared_tile * g.size

\* isl_val_le(size, left)
Fits_strict(size, left) == size < left
Fits(size, left) == size <= left

\* left = isl_val_sub(left, size)
Remaining_nosub(left, size) == left
Remaining(left, size) == left - size

\* The loop of check_shared_memory_bound from group j on, with "left"
\* bytes of shared memory still available.
RECURSIVE CheckFrom(_, _, _)
CheckFrom(gs, j, left) ==
    IF j > Len(gs) THEN gs
    ELSE IF gs[j].private_tile THEN CheckFrom(gs, j + 1, left)
    ELSE IF gs[j].shared_tile = NoTile THEN CheckFrom(gs, j + 1, left)
    ELSE IF Fits(Footprint(gs[j]), left)
         THEN CheckFrom(gs, j + 1, Remaining(left, Footprint(gs[j])))
         ELSE CheckFrom([gs EXCEPT ![j].shared_tile = NoTile], j + 1, left)

\* if (kernel->options->max_shared_memory < 0) return;
check_shared_memory_bound_always(gs, max) == CheckFrom(gs, 1, max)
check_shared_memory_bound(gs, max) ==
    IF max < 0 THEN gs ELSE CheckFrom(gs, 1, max)

MemInit ==
    /\ pc = "start"
    /\ LaterIdle
    /\ orig \in SeqsUpTo(Group, MaxGroups)
    /\ groups = orig
    /\ max_shared_memory \in -1..MaxBudget
    /\ SchedIdle
    /\ TileIdle
    /\ GridIdle
    /\ KernelIdle

CheckSharedMemoryBound ==
    /\ pc = "start"
    /\ groups' = check_shared_memory_bound(groups, max_shared_memory)
    /\ pc' = "done"
    /\ UNCHANGED <<laterVars, memVars, schedVars, tileVars, gridVars, kernelVars>>

MemNext == CheckSharedMemoryBound

SpecMem == MemInit /\ [][MemNext]_vars

\* Groups that are charged to the budget: a shared tile and no private tile.
InShared(g) == ~g.private_tile /\ g.shared_tile # NoTile

SharedIdx(gs) == {j \in 1..Len(gs) : InShared(gs[j])}

RECURSIVE SumFoot(_, _)
SumFoot(gs, J) ==
    IF J = {} THEN 0
    ELSE LET j == CHOOSE x \in J : TRUE
         IN Footprint(gs[j]) + SumFoot(gs, J \ {j})

Evicted == SharedIdx(orig) \ SharedIdx(groups)

\* C1: after check_shared_memory_bound with a finite budget, the total
\* footprint of the groups that still have a shared tile and no private
\* tile is at most max_shared_memory.
C1_BudgetRespected ==
    (pc = "done" /\ max_shared_memory >= 0) =>
        SumFoot(groups, SharedIdx(groups)) <= max_shared_memory

C1_Witness ==
    /\ pc = "done"
    /\ max_shared_memory >= 0
    /\ Evicted # {}
    /\ SharedIdx(groups) # {}
    /\ SumFoot(orig, SharedIdx(orig)) > max_shared_memory

\* C2 (as stated): no evicted group could have been retained together with
\* the groups finally kept, and no smaller set of evictions would have made
\* the remainder fit the budget.
C2_Original ==
    (pc = "done" /\ max_shared_memory >= 0) =>
        /\ \A j \in Evicted :
              Footprint(orig[j]) + SumFoot(groups, SharedIdx(groups))
                  > max_shared_memory
        /\ \A E \in SUBSET SharedIdx(orig) :
              Cardinality(E) < Cardinality(Evicted) =>
                  SumFoot(orig, SharedIdx(orig) \ E) > max_shared_memory

\* C2 (amended): eviction is greedy in encounter order.  A group charged to
\* the budget is kept exactly when its footprint is at most the budget
\* minus the footprints of the groups kept before it, and no evicted group
\* could have been retained together with the groups finally kept.
C2_Greedy ==
    (pc = "done" /\ max_shared_memory >= 0) =>
        /\ \A j \in SharedIdx(orig) :
              (j \in SharedIdx(groups)) <=>
                  Footprint(orig[j]) <= max_shared_memory -
                      SumFoot(groups, {i \in SharedIdx(groups) : i < j})
        /\ \A j \in Evicted :
              Footprint(orig[j]) + SumFoot(groups, SharedIdx(groups))
                  > max_shared_memory
        /\ \A j \in SharedIdx(groups) : groups[j] = orig[j]

\* An eviction took place although evicting fewer groups would have fitted.
C2_Witness ==
    /\ pc = "done"
    /\ max_shared_memory >= 0
    /\ Cardinality(Evicted) >= 2
    /\ SharedIdx(groups) # {}
    /\ \E E \in SUBSET SharedIdx(orig) :
          /\ Cardinality(E) < Cardinality(Evicted)
          /\ SumFoot(orig, SharedIdx(orig) \ E) <= max_shared_memory

\* C30: check_shared_memory_bound changes nothing but the shared tiles of
\* groups that have a shared tile and no private tile: private tiles and
\* groups with a private tile stay as they were, with a negative
\* max_shared_memory no group changes, and a group is kept exactly when its
\* footprint is at most the budget minus the footprints of the groups kept
\* before it, also after an earlier group was evicted.
C30_FrameOfBound ==
    pc = "done" =>
        /\ Len(groups) = Len(orig)
        /\ \A j \in 1..Len(orig) :
              /\ groups[j].private_tile = orig[j].private_tile
              /\ groups[j].size = orig[j].size
              /\ groups[j].shared_tile \in {orig[j].shared_tile, NoTile}
              /\ ~InShared(orig[j]) => groups[j] = orig[j]
        /\ max_shared_memory < 0 => groups = orig
        /\ max_shared_memory >= 0 =>
              \A j \in SharedIdx(orig) :
                  LET before == {i \in SharedIdx(orig) :
                                    i < j /\ groups[i] = orig[i]}
                  IN groups[j] = orig[j] <=>
                        Footprint(orig[j]) + SumFoot(orig, before)
                            <= max_shared_memory

\* A group with a private tile and a shared tile larger than the budget is
\* left alone, the next group is evicted and the one after it is kept.
C30_Witness ==
    /\ pc = "done"
    /\ max_shared_memory >= 0
    /\ Len(orig) = 3
    /\ orig[1].private_tile
    /\ Footprint(orig[1]) > max_shared_memory
    /\ groups[1] = orig[1]
    /\ 2 \in Evicted
    /\ 3 \in SharedIdx(groups)

(***************************************************************************)
(* The copy/sync schedule of a kernel body.                                *)
(***************************************************************************)

\* One array reference group as seen by body_schedule: its tiles, the last
\* shared tile loop that affects its tile, and whether any read or write
\* access is left to copy after remove_local_accesses.
SchedGroup(tf, sl) ==
    [private_tile : BOOLEAN, shared_tile : {NoTile, 1},
     last_shared : (tf - 1)..(sl - 1),
     reads : BOOLEAN, writes : BOOLEAN]

\* The values of the shared tile loops: the host loops are fixed at the
\* launch, the loops from tile_first on iterate.
LoopVals == 0..MaxIter

SharedPoints(tf, sl) ==
    {S \in [1..sl -> LoopVals] : \A i \in 1..tf : S[i] = 0}

\* insert_even: the shared tile loops from tile_first on go to the odd
\* output dimensions, the even dimensions are 0 except dimension 2 * pos,
\* which is val; if pos >= 0 the loops from pos on are eliminated and
\* their output dimensions are fixed to 0.  Output dimension d (counted
\* from 0) is element d + 1 of the result.
insert_even_shifted(tf, sl, S, pos, val) ==
    [d \in 1..(2 * (sl - tf) + 1) |->
        LET i == (d - 1) \div 2
        IN IF (d - 1) % 2 = 0
           THEN (IF i = pos + 1 THEN val ELSE 0)
           ELSE (IF pos >= 0 /\ i >= pos THEN 0 ELSE S[tf + i + 1])]
insert_even(tf, sl, S, pos, val) ==
    [d \in 1..(2 * (sl - tf) + 1) |->
        LET i == (d - 1) \div 2
        IN IF (d - 1) % 2 = 0
           THEN (IF i = pos THEN val ELSE 0)
           ELSE (IF pos >= 0 /\ i >= pos THEN 0 ELSE S[tf + i + 1])]

\* The rank of a copy from global memory.
ReadVal(k) == -2 - k

\* The rank of a copy to global memory.
WriteVal_same(private, k, s) == 1 + k
WriteVal(private, k, s) == IF private THEN 1 + k ELSE 1 + s + 1 + k

\* The rank of the synchronization after the kernel body.
BodySyncVal_early(s) == s
BodySyncVal_final(s) == 2 * s + 2
BodySyncVal(s) == 1 + s

\* The rank of the synchronization after the copies to global memory.
WriteSyncVal(s) == 2 * s + 2

\* ++k
NextK_same(k) == k
NextK(k) == k + 1

\* An entry of the schedule.  "tag" is the name of its space, "grp" the
\* group of a copy (the user pointer of the read/write id; 0 otherwise),
\* "site" the call that scheduled it, and pos/val the arguments
\* handed to insert_even.
Entry(tag, grp, site, pos, val) ==
    [tag |-> tag, grp |-> grp, site |-> site, pos |-> pos, val |-> val]

\* add_sync_schedule
add_sync_schedule(r, site, pos, val) ==
    r \cup {Entry("sync", 0, site, pos, val)}

\* add_group_schedule for group j (the k-th group with a tile) of s groups.
add_group_schedule_unguarded(r, tf, sl, gs, j, read, k, s) ==
    LET group == gs[j]
        n == sl - tf
        pos == group.last_shared + 1 - tf
        val == IF read THEN ReadVal(k)
               ELSE WriteVal(group.private_tile, k, s)
        empty == IF read THEN ~group.reads ELSE ~group.writes
        r1 == r \cup {Entry(IF read THEN "read" ELSE "write", j,
                            "copy", pos, val)}
    IN IF empty THEN r
       ELSE IF read
            THEN (IF ~group.private_tile
                  THEN add_sync_schedule(r1, "copyin", n, -1)
                  ELSE r1)
            ELSE (IF pos = 0 THEN r1
                  ELSE add_sync_schedule(r1, "copyout", pos, WriteSyncVal(s)))
add_group_schedule(r, tf, sl, gs, j, read, k, s) ==
    LET group == gs[j]
        n == sl - tf
        pos == group.last_shared + 1 - tf
        val == IF read THEN ReadVal(k)
               ELSE WriteVal(group.private_tile, k, s)
        empty == IF read THEN ~group.reads ELSE ~group.writes
        r1 == r \cup {Entry(IF read THEN "read" ELSE "write", j,
                            "copy", pos, val)}
    IN IF empty THEN r
       ELSE IF read
            THEN (IF ~group.private_tile
                  THEN add_sync_schedule(r1, "copyin", n, -1)
                  ELSE r1)
            ELSE (IF pos = 0 THEN r1
                  ELSE IF pos = n /\ group.private_tile THEN r1
                  ELSE add_sync_schedule(r1, "copyout", pos, WriteSyncVal(s)))

\* The loop over the groups in body_schedule.
RECURSIVE GroupLoop(_, _, _, _, _, _, _)
GroupLoop(r, tf, sl, gs, j, k, s) ==
    IF j > Len(gs) THEN r
    ELSE IF ~gs[j].private_tile /\ gs[j].shared_tile = NoTile
         THEN GroupLoop(r, tf, sl, gs, j + 1, k, s)
         ELSE LET r1 == add_group_schedule(r, tf, sl, gs, j, FALSE, k, s)
                  r2 == add_group_schedule(r1, tf, sl, gs, j, TRUE, k, s)
              IN GroupLoop(r2, tf, sl, gs, j + 1, NextK(k), s)

body_schedule(tf, sl, gs) ==
    LET s == Len(gs)
        body == {Entry("body", 0, "body", -1, 0)}
    IN add_sync_schedule(GroupLoop(body, tf, sl, gs, 1, 0, s),
                         "kernel", sl - tf, BodySyncVal(s))

\* The group has a tile in private or in shared memory.
HasTile(g) == g.private_tile \/ g.shared_tile # NoTile

SchedInit ==
    /\ pc = "start"
    /\ LaterIdle
    /\ tile_first \in 0..MaxFirst
    /\ shared_len \in tile_first..(tile_first + MaxLevels)
    /\ groups \in SeqsUpTo(SchedGroup(tile_first, shared_len), MaxSchedGroups)
    /\ res = {}
    /\ MemIdle
    /\ TileIdle
    /\ GridIdle
    /\ KernelIdle

BodySchedule ==
    /\ pc = "start"
    /\ res' = body_schedule(tile_first, shared_len, groups)
    /\ pc' = "done"
    /\ UNCHANGED <<laterVars, groups, memVars, tile_first, shared_len, tileVars,
                   gridVars, kernelVars>>

SchedNext == BodySchedule

SpecSched == SchedInit /\ [][SchedNext]_vars

\* The groups of a kernel in which every group with a tile is both read
\* and written by the kernel, so that each of them is copied in and out.
OrderGroup(tf, sl) ==
    {g \in SchedGroup(tf, sl) :
        IF HasTile(g) THEN g.reads /\ g.writes
        ELSE ~g.reads /\ ~g.writes /\ g.last_shared = tf - 1}

OrderInit ==
    /\ pc = "start"
    /\ LaterIdle
    /\ tile_first \in 0..MaxFirst
    /\ shared_len \in tile_first..(tile_first + MaxLevels)
    /\ groups \in SeqsUpTo(OrderGroup(tile_first, shared_len), MaxSchedGroups)
    /\ res = {}
    /\ MemIdle
    /\ TileIdle
    /\ GridIdle
    /\ KernelIdle

SpecOrder == OrderInit /\ [][SchedNext]_vars


\* The number of groups with a tile before group j.
TiledBefore(j) == Cardinality({i \in 1..(j - 1) : HasTile(groups[i])})

Reads == {e \in res : e.tag = "read"}
Writes == {e \in res : e.tag = "write"}
PrivateWrites == {e \in Writes : groups[e.grp].private_tile}
SharedWrites == {e \in Writes : ~groups[e.grp].private_tile}
Body == {e \in res : e.tag = "body"}
Syncs == {e \in res : e.tag = "sync"}
KernelSyncs == {e \in Syncs : e.site = "kernel"}
WriteSyncs == {e \in Syncs : e.site = "copyout"}

\* C3 (as stated): read ranks < the rank of the unconditional barrier after
\* the body < private write ranks < shared write ranks < the rank of the
\* final barrier.
C3_Original ==
    pc = "done" =>
        /\ \A r \in Reads, b \in KernelSyncs : r.val < b.val
        /\ \A b \in KernelSyncs, p \in PrivateWrites : b.val < p.val
        /\ \A p \in PrivateWrites, w \in SharedWrites : p.val < w.val
        /\ \A w \in SharedWrites, f \in WriteSyncs : w.val < f.val

\* C3 (amended): read ranks < the rank of the kernel body (0) < private
\* write ranks < the rank of the unconditional barrier after the body
\* < shared write ranks < the rank of the final barrier.
C3_RankOrder ==
    pc = "done" =>
        /\ \A r \in Reads, k \in Body : r.val < k.val
        /\ \A k \in Body, p \in PrivateWrites : k.val < p.val
        /\ \A p \in PrivateWrites, b \in KernelSyncs : p.val < b.val
        /\ \A b \in KernelSyncs, w \in SharedWrites : b.val < w.val
        /\ \A w \in SharedWrites, f \in WriteSyncs : w.val < f.val
        /\ \A k \in Body, b \in KernelSyncs : k.val < b.val
        /\ KernelSyncs # {}

C3_Witness ==
    /\ pc = "done"
    /\ Reads # {}
    /\ PrivateWrites # {}
    /\ SharedWrites # {}
    /\ WriteSyncs # {}
    /\ KernelSyncs # {}

\* C4: with s groups, the k-th group with a tile gets read rank -2-k < 0,
\* private write rank 1+k in 1..s and shared write rank s+2+k in
\* s+2..2s+1; different groups get different read ranks and different
\* write ranks.
C4_RankValues ==
    pc = "done" =>
        LET s == Len(groups)
        IN /\ \A e \in Reads :
                 e.val = -2 - TiledBefore(e.grp) /\ e.val < 0
           /\ \A e \in PrivateWrites :
                 e.val = 1 + TiledBefore(e.grp) /\ e.val \in 1..s
           /\ \A e \in SharedWrites :
                 /\ e.val = s + 2 + TiledBefore(e.grp)
                 /\ e.val \in (s + 2)..(2 * s + 1)
           /\ \A e1, e2 \in Reads \cup Writes :
                 (e1.tag = e2.tag /\ e1.grp # e2.grp) => e1.val # e2.val

C4_Witness ==
    /\ pc = "done"
    /\ \E e1, e2 \in Reads : e1.grp # e2.grp
    /\ \E e1 \in PrivateWrites, e2 \in SharedWrites :
          TiledBefore(e1.grp) = 1 /\ TiledBefore(e2.grp) = 0

\* The coordinates of the instance of entry e at the values T of the shared
\* tile loops.
Coords(e, T) == insert_even(tile_first, shared_len, T, e.pos, e.val)

\* The number of shared tile loop levels whose value an entry carries.
Carried(e) == IF e.pos < 0 THEN shared_len - tile_first ELSE e.pos

\* T with the loops that e does not carry set to 0.
CarriedPart(e, T) ==
    [i \in 1..shared_len |->
        IF i > tile_first + Carried(e) THEN 0 ELSE T[i]]

Min(a, b) == IF a < b THEN a ELSE b

LexLess(a, b) ==
    \E d \in 1..Len(a) : a[d] < b[d] /\ \A c \in 1..(d - 1) : a[c] = b[c]

Points == SharedPoints(tile_first, shared_len)

\* An instance of an entry is fixed by the values of the loops the entry
\* carries.
CarriedOnly ==
    \A e \in res, T \in Points : Coords(e, T) = Coords(e, CarriedPart(e, T))

\* Every instance of e1 precedes every instance of e2 that agrees with it
\* on the loop values both carry: two such instances are the instances of
\* e1 and e2 at one point T.
Before(e1, e2) ==
    \A T \in Points : LexLess(Coords(e1, T), Coords(e2, T))

\* C5: in the lexicographic order of the interleaved coordinates, among
\* entries that agree on the loop values they both carry: copy-in precedes
\* the body, a barrier lies between a copy-in to shared memory and the
\* body, copy-out follows the body, private copy-out precedes shared
\* copy-out at the same level, and the barrier of rank 2s+2 follows all
\* copy-outs at its level.
C5_HappensBefore ==
    pc = "done" =>
        /\ CarriedOnly
        /\ \A r \in Reads, k \in Body : Before(r, k)
        /\ \A r \in Reads, k \in Body :
              ~groups[r.grp].private_tile =>
                 \A T \in Points :
                    \E y \in Syncs :
                       /\ LexLess(Coords(r, T), Coords(y, T))
                       /\ LexLess(Coords(y, T), Coords(k, T))
        /\ \A w \in Writes, k \in Body : Before(k, w)
        /\ \A p \in PrivateWrites, w \in SharedWrites :
              p.pos = w.pos => Before(p, w)
        /\ \A f \in Syncs, w \in Writes :
              (f.val = 2 * Len(groups) + 2 /\ f.pos = w.pos) => Before(w, f)

C5_Witness ==
    /\ pc = "done"
    /\ shared_len - tile_first >= 1
    /\ tile_first > 0
    /\ \E r \in Reads : ~groups[r.grp].private_tile /\ r.pos = 1
    /\ \E p \in PrivateWrites, w \in SharedWrites, f \in WriteSyncs :
          p.pos = w.pos /\ f.pos = w.pos /\ w.pos = 1

(***************************************************************************)
(* The tile and wrap relations.                                            *)
(***************************************************************************)

Max(a, b) == IF a > b THEN a ELSE b

\* The integers the coordinates of the model range over.
Coord == (-MaxCoord)..MaxCoord
OutCoord == (-MaxCoord)..Max(MaxCoord, MaxSize)

\* Coordinate c (counted from 0) of the point "out" has a value.
Has(out, c) == c + 1 <= Len(out)

\* tile: the constraints between an input point "in" of dimension n and an
\* output point "out" of dimension n + tl.  Coordinate c of the code
\* (counted from 0) is element c + 1 of a point.  A constraint binds a
\* point as soon as the point has every coordinate the constraint mentions,
\* so that the relation can be built one coordinate at a time.
TileRel_long(in, out, n, f, tl, size) ==
    /\ \A i \in 0..(n - tl - 1) :
          LET j == IF i < f THEN i ELSE i + tl
              k == IF i < f THEN i ELSE i + 2 * tl
          IN Has(out, k) => -in[j + 1] + out[k + 1] = 0
    /\ \A i \in 0..(tl - 1) :
          Has(out, f + i + tl) =>
             /\ -in[f + i + 1] + size[i + 1] * out[f + i + 1]
                    + out[f + i + tl + 1] = 0
             /\ out[f + i + tl + 1] >= 0
             /\ -out[f + i + tl + 1] + size[i + 1] >= 0
TileRel(in, out, n, f, tl, size) ==
    /\ \A i \in 0..(n - tl - 1) :
          LET j == IF i < f THEN i ELSE i + tl
              k == IF i < f THEN i ELSE i + 2 * tl
          IN Has(out, k) => -in[j + 1] + out[k + 1] = 0
    /\ \A i \in 0..(tl - 1) :
          Has(out, f + i + tl) =>
             /\ -in[f + i + 1] + size[i + 1] * out[f + i + 1]
                    + out[f + i + tl + 1] = 0
             /\ out[f + i + tl + 1] >= 0
             /\ -out[f + i + tl + 1] + size[i + 1] - 1 >= 0

\* The points of dimension d that satisfy the constraints of tile() that
\* bind them.
RECURSIVE TileUpTo(_, _, _, _, _, _)
TileUpTo(in, n, f, tl, size, d) ==
    IF d = 0 THEN {<<>>}
    ELSE {o \in {Append(p, v) : p \in TileUpTo(in, n, f, tl, size, d - 1),
                                v \in OutCoord} :
             TileRel(in, o, n, f, tl, size)}

\* The images of "in" under the relation built by tile().
tile(in, n, f, tl, size) == TileUpTo(in, n, f, tl, size, n + tl)

\* wrap: the constraints between an input point "in" of dimension n and a
\* point "out" of dimension n + 2 * wl, before the last wl of the added
\* coordinates are projected out.
WrapRel_short(in, out, n, f, wl, size) ==
    /\ \A i \in 0..(n - 1) :
          LET k == IF i < f + wl THEN i ELSE i + 2 * wl
          IN Has(out, k) => -in[i + 1] + out[k + 1] = 0
    /\ \A i \in 0..(wl - 1) :
          /\ Has(out, f + 2 * wl + i) =>
                -out[f + i + 1] + out[f + wl + i + 1]
                    + size[i + 1] * out[f + 2 * wl + i + 1] = 0
          /\ Has(out, f + wl + i) =>
                /\ out[f + wl + i + 1] >= 0
                /\ -out[f + wl + i + 1] + size[i + 1] - 2 >= 0
WrapRel(in, out, n, f, wl, size) ==
    /\ \A i \in 0..(n - 1) :
          LET k == IF i < f + wl THEN i ELSE i + 2 * wl
          IN Has(out, k) => -in[i + 1] + out[k + 1] = 0
    /\ \A i \in 0..(wl - 1) :
          /\ Has(out, f + 2 * wl + i) =>
                -out[f + i + 1] + out[f + wl + i + 1]
                    + size[i + 1] * out[f + 2 * wl + i + 1] = 0
          /\ Has(out, f + wl + i) =>
                /\ out[f + wl + i + 1] >= 0
                /\ -out[f + wl + i + 1] + size[i + 1] - 1 >= 0

\* The points of dimension d that satisfy the constraints of wrap() that
\* bind them.
RECURSIVE WrapUpTo(_, _, _, _, _, _)
WrapUpTo(in, n, f, wl, size, d) ==
    IF d = 0 THEN {<<>>}
    ELSE {o \in {Append(p, v) : p \in WrapUpTo(in, n, f, wl, size, d - 1),
                                v \in OutCoord} :
             WrapRel(in, o, n, f, wl, size)}

\* isl_basic_map_project_out(bmap, isl_dim_out, pos, cnt)
ProjectOut(out, pos, cnt) ==
    [d \in 1..(Len(out) - cnt) |-> IF d <= pos THEN out[d] ELSE out[d + cnt]]

\* The images of "in" under the relation built by wrap().
wrap(in, n, f, wl, size) ==
    {ProjectOut(out, f + 2 * wl, wl) :
        out \in WrapUpTo(in, n, f, wl, size, n + 2 * wl)}

TileInit ==
    /\ pc = "start"
    /\ LaterIdle
    /\ len \in 1..MaxLen
    /\ tile_len \in 0..(IF len < MaxTileLen THEN len ELSE MaxTileLen)
    /\ first \in 0..(len - tile_len)
    /\ tile_size \in [1..tile_len -> 1..MaxSize]
    /\ point \in [1..len -> Coord]
    /\ image = <<>>
    /\ groups = <<>>
    /\ MemIdle
    /\ SchedIdle
    /\ GridIdle
    /\ KernelIdle

\* Apply the relation built by tile() to "point".
Tile ==
    /\ pc = "start"
    /\ \E out \in tile(point, len, first, tile_len, tile_size) : image' = out
    /\ pc' = "tiled"
    /\ UNCHANGED <<laterVars, groups, memVars, schedVars, gridVars, kernelVars,
                   len, first, tile_len, tile_size, point>>

\* Apply the relation built by wrap() to "point".
Wrap ==
    /\ pc = "start"
    /\ \E out \in wrap(point, len, first, tile_len, tile_size) : image' = out
    /\ pc' = "wrapped"
    /\ UNCHANGED <<laterVars, groups, memVars, schedVars, gridVars, kernelVars,
                   len, first, tile_len, tile_size, point>>

TileNext == Tile \/ Wrap

SpecTile == TileInit /\ [][TileNext]_vars

\* C6: tile() maps a coordinate i of a tiled dimension to exactly one pair
\* (outer, inner) with i = size * outer + inner and 0 <= inner < size, and
\* leaves the other coordinates unchanged.
C6_TileRoundTrip ==
    /\ pc = "start" =>
          Cardinality(tile(point, len, first, tile_len, tile_size)) = 1
    /\ pc = "tiled" =>
          /\ Len(image) = len + tile_len
          /\ \A i \in 1..tile_len :
                LET outer == image[first + i]
                    inner == image[first + tile_len + i]
                IN /\ point[first + i] = tile_size[i] * outer + inner
                   /\ 0 <= inner
                   /\ inner < tile_size[i]
          /\ \A j \in 1..first : image[j] = point[j]
          /\ \A j \in (first + tile_len + 1)..len :
                image[j + tile_len] = point[j]

C6_Witness ==
    /\ pc = "tiled"
    /\ tile_len >= 1
    /\ len > tile_len
    /\ tile_size[1] >= 2
    /\ point[first + 1] < 0
    /\ image[first + tile_len + 1] > 0

\* The input point recovered from an element of the range of wrap().
WrapInverse(out) ==
    [j \in 1..len |-> IF j <= first + tile_len THEN out[j]
                      ELSE out[j + tile_len]]

\* The input point recovered from an element of the range of tile().
TileInverse(out) ==
    [j \in 1..len |->
        IF j <= first THEN out[j]
        ELSE IF j <= first + tile_len
             THEN tile_size[j - first] * out[j] + out[j + tile_len]
             ELSE out[j + tile_len]]

\* C7: for fixed sizes the relations built by wrap() and by tile() have
\* the same domain: every input point is mapped by both, and mapping an
\* image back gives the point it came from.
C7_SameDomain ==
    /\ pc = "start" =>
          /\ tile(point, len, first, tile_len, tile_size) # {}
          /\ wrap(point, len, first, tile_len, tile_size) # {}
    /\ pc = "wrapped" =>
          /\ WrapInverse(image) = point
          /\ tile(point, len, first, tile_len, tile_size) # {}
    /\ pc = "tiled" =>
          /\ TileInverse(image) = point
          /\ wrap(point, len, first, tile_len, tile_size) # {}

C7_Witness ==
    /\ pc = "wrapped"
    /\ tile_len >= 1
    /\ tile_size[1] >= 2
    /\ image[first + tile_len + 1] # point[first + 1]
    /\ \E out \in tile(point, len, first, tile_len, tile_size) :
          out[first + 1] # image[first + tile_len + 1]

(***************************************************************************)
(* The effective grid and block size.                                      *)
(***************************************************************************)

RECURSIVE SetsUpTo(_, _)
SetsUpTo(S, k) ==
    IF k = 0 THEN {{}}
    ELSE LET R == SetsUpTo(S, k - 1)
         IN R \cup {r \cup {x} : r \in R, x \in S}

\* A statement instance: the value p of the parameter it exists for and
\* the value c of the partial schedule of the band that is mapped to
\* block or thread identifiers.
Instance(n) == [p : 0..MaxParam, c : [1..n -> (-1)..MaxSched]]

\* set_schedule_modulo: the identifiers are equated to the partial
\* schedule of the band modulo "size"; a band without members does not
\* constrain the instances.
set_schedule_modulo_plain(c, size) == c
set_schedule_modulo(c, size) == [i \in 1..Len(c) |-> c[i] % size[i]]

\* extract_context: the parameter values for which an instance reaches
\* the kernel.
extract_context(dom) == {x.p : x \in dom}

SetMax(S) == CHOOSE m \in S : \A x \in S : x <= m

\* extract_size / extract_fixed_size: the maximal value of "set" in each
\* direction plus one.
extract_size_max(set, n) == [i \in 1..n |-> SetMax({b[i] : b \in set})]
extract_size(set, n) == [i \in 1..n |-> SetMax({b[i] : b \in set}) + 1]

\* extract_grid_size: the block identifiers of the instances that exist
\* for parameter value p, for each p of the context.
extract_grid_size(dom, n, size) ==
    [p \in extract_context(dom) |->
        extract_size({set_schedule_modulo(x.c, size) :
                         x \in {y \in dom : y.p = p}}, n)]

\* extract_block_size: the thread identifiers of all instances, with the
\* parameters projected out.
extract_block_size(dom, n, size) ==
    extract_size({set_schedule_modulo(x.c, size) : x \in dom}, n)

GridInit ==
    /\ pc = "start"
    /\ LaterIdle
    /\ n_ids \in 0..MaxDims
    /\ conf_size \in [1..n_ids -> 1..MaxConf]
    /\ domain \in SetsUpTo(Instance(n_ids), MaxInst) \ {{}}
    /\ grid_size = <<>>
    /\ block_dim = <<>>
    /\ groups = <<>>
    /\ MemIdle
    /\ SchedIdle
    /\ TileIdle
    /\ KernelIdle

\* The band is the one mapped to blocks, conf_size is kernel->grid_dim.
ExtractGridSize ==
    /\ pc = "start"
    /\ grid_size' = extract_grid_size(domain, n_ids, conf_size)
    /\ pc' = "grid"
    /\ UNCHANGED <<laterVars, groups, memVars, schedVars, tileVars, kernelVars,
                   n_ids, conf_size, domain, block_dim>>

\* The band is the one mapped to threads, conf_size is the configured
\* kernel->block_dim.
ExtractBlockSize ==
    /\ pc = "start"
    /\ block_dim' = extract_block_size(domain, n_ids, conf_size)
    /\ pc' = "block"
    /\ UNCHANGED <<laterVars, groups, memVars, schedVars, tileVars, kernelVars,
                   n_ids, conf_size, domain, grid_size>>

GridNext == ExtractGridSize \/ ExtractBlockSize

SpecGrid == GridInit /\ [][GridNext]_vars

\* The identifiers in dimension i of the instances in D.
IdsOf(D, i) == {x.c[i] % conf_size[i] : x \in D}

\* g is the smallest integer >= 1 that is above every identifier in I.
SmallestCover(g, I) ==
    /\ g >= 1
    /\ \A b \in I : b < g
    /\ \A h \in 1..(g - 1) : \E b \in I : b >= h

\* C8: in each dimension the grid size is the smallest integer >= 1 above
\* every block id taken by an instance (for the parameter value at hand),
\* hence at most the configured grid_dim; the block size is computed by
\* the same rule over all parameter values and is at most the configured
\* block size.
C8_SmallestCover ==
    /\ pc = "grid" =>
          /\ DOMAIN grid_size = {x.p : x \in domain}
          /\ \A p \in DOMAIN grid_size : \A i \in 1..n_ids :
                /\ SmallestCover(grid_size[p][i],
                                 IdsOf({x \in domain : x.p = p}, i))
                /\ grid_size[p][i] <= conf_size[i]
    /\ pc = "block" =>
          \A i \in 1..n_ids :
             /\ SmallestCover(block_dim[i], IdsOf(domain, i))
             /\ block_dim[i] <= conf_size[i]

C8_Witness ==
    /\ pc = "grid"
    /\ n_ids >= 1
    /\ Cardinality(DOMAIN grid_size) = 2
    /\ \E p, q \in DOMAIN grid_size :
          /\ grid_size[p][1] > 1
          /\ grid_size[p][1] < conf_size[1]
          /\ grid_size[q][1] # grid_size[p][1]

\* C9 (as stated): for a domain that is a single fixed point the grid size
\* is exactly 1 in every dimension.
C9_Original ==
    (pc = "grid" /\ Cardinality(domain) = 1) =>
        \A p \in DOMAIN grid_size : \A i \in 1..n_ids : grid_size[p][i] = 1

\* C9 (amended): for a domain that is a single fixed point the grid size
\* in every dimension is one plus the block id of that point, the value of
\* the band at the point modulo grid_dim; it is 1 exactly when that block
\* id is 0.
C9_SinglePoint ==
    (pc = "grid" /\ Cardinality(domain) = 1) =>
        \A x \in domain :
           /\ DOMAIN grid_size = {x.p}
           /\ \A i \in 1..n_ids :
                 /\ grid_size[x.p][i] = (x.c[i] % conf_size[i]) + 1
                 /\ (grid_size[x.p][i] = 1) <=>
                       (\E q \in (-MaxSched)..MaxSched :
                           x.c[i] = q * conf_size[i])

C9_Witness ==
    /\ pc = "grid"
    /\ Cardinality(domain) = 1
    /\ n_ids >= 1
    /\ \E p \in DOMAIN grid_size : grid_size[p][1] > 1

(***************************************************************************)
(* The dimension counts of a kernel.                                       *)
(***************************************************************************)

\* The sizes of one type specified by the user for the kernel: no set
\* (NULL) or a singleton set holding one tuple of sizes.
UserSizes ==
    {{}} \cup {{q} : q \in SeqsUpTo(1..MaxUserSize, MaxUserDims)}

\* read_sizes_from_set: the first (at most n) elements of the tuple are
\* stored in "arr" and n is lowered to the dimension of the tuple.
\* The result is the updated array and length.
read_sizes_from_set(set, arr, n) ==
    IF set = {} THEN [sizes |-> arr, len |-> n]
    ELSE LET q == CHOOSE t \in set : TRUE
             m == IF Len(q) < n THEN Len(q) ELSE n
         IN [sizes |-> [i \in 1..Len(arr) |->
                           IF i <= m THEN q[i] ELSE arr[i]],
             len |-> m]

\* read_tile_sizes: the default tile size in each dimension, overridden
\* by the sizes of the user.
read_tile_sizes(user, n, default) ==
    read_sizes_from_set(user, [i \in 1..n |-> default], n)

\* if (kernel->n_block > 3) kernel->n_block = 3;
BlockCap(n) == IF n > 3 THEN 3 ELSE n

\* if (kernel->n_grid > 2) kernel->n_grid = 2;
GridCap_three(n) == IF n > 3 THEN 3 ELSE n
GridCap(n) == IF n > 2 THEN 2 ELSE n

\* read_block_sizes
read_block_sizes(user, n_block) ==
    LET n == BlockCap(n_block)
        def == IF n = 1 THEN <<512, 0, 0>>
               ELSE IF n = 2 THEN <<32, 16, 0>>
               ELSE <<32, 4, 4>>
    IN read_sizes_from_set(user, def, n)

\* read_grid_sizes
read_grid_sizes(user, n_grid) ==
    LET n == GridCap(n_grid)
        def == IF n = 1 THEN <<32768, 0>> ELSE <<256, 256>>
    IN read_sizes_from_set(user, def, n)

\* n_outer_coincidence: the number of outer members marked coincident.
RECURSIVE n_outer_coincidence(_)
n_outer_coincidence(flags) ==
    IF flags = <<>> \/ ~Head(flags) THEN 0
    ELSE 1 + n_outer_coincidence(Tail(flags))

\* mark_outer_permutable followed by the part of create_kernel that fills
\* in the dimension counts and the sizes.  The band is split to the number
\* of tile sizes; the tile band and the point band below the "thread" mark
\* both have the members of the split band.
create_kernel(b, user, opts) ==
    LET tiles == read_tile_sizes(user.tile, Len(b), opts.tile_size)
        node == IF tiles.len < Len(b) THEN SubSeq(b, 1, tiles.len) ELSE b
        node_thread == node
        n_parallel == n_outer_coincidence(node)
        block == read_block_sizes(user.block, n_outer_coincidence(node_thread))
        grid == read_grid_sizes(user.grid, n_parallel)
    IN [tile_len |-> tiles.len, tile_size |-> tiles.sizes,
        n_parallel |-> n_parallel,
        n_grid |-> grid.len, grid_dim |-> grid.sizes,
        n_block |-> block.len, block_dim |-> block.sizes]

\* The bands handed to mark_outer_permutable: a permutable band whose
\* first member is coincident, or the band without members inserted at a
\* leaf.
SelectedBands ==
    {b \in SeqsUpTo(BOOLEAN, MaxBand) : b = <<>> \/ b[1]}

KernelInit ==
    /\ pc = "start"
    /\ LaterIdle
    /\ band \in SelectedBands
    /\ sizes \in [tile : UserSizes, grid : UserSizes, block : UserSizes]
    /\ options \in [tile_size : 1..(MaxUserSize + 1)]
    /\ kernel = <<>>
    /\ groups = <<>>
    /\ MemIdle
    /\ SchedIdle
    /\ TileIdle
    /\ GridIdle

CreateKernel ==
    /\ pc = "start"
    /\ kernel' = create_kernel(band, sizes, options)
    /\ pc' = "done"
    /\ UNCHANGED <<laterVars, groups, memVars, schedVars, tileVars, gridVars,
                   band, sizes, options>>

KernelNext == CreateKernel

SpecKernel == KernelInit /\ [][KernelNext]_vars

\* C10 (as stated): without user specified grid and block sizes the kernel
\* has n_grid = min(P, 3) and at most 3 thread dimensions, with P the
\* number of outer coincident members of the band; in every kernel
\* n_grid <= 3 and n_block <= 3.
C10_Original ==
    pc = "done" =>
        /\ (sizes.grid = {} /\ sizes.block = {}) =>
              /\ kernel.n_grid = Min(kernel.n_parallel, 3)
              /\ kernel.n_block <= 3
        /\ kernel.n_grid <= 3
        /\ kernel.n_block <= 3

\* C10 (amended): without user specified grid and block sizes the kernel
\* has n_grid = min(P, 2) and n_block = min(P, 3); in every kernel
\* n_grid <= 2 and n_block <= 3.
C10_DimCounts ==
    pc = "done" =>
        /\ (sizes.grid = {} /\ sizes.block = {}) =>
              /\ kernel.n_grid = Min(kernel.n_parallel, 2)
              /\ kernel.n_block = Min(kernel.n_parallel, 3)
        /\ kernel.n_grid <= 2
        /\ kernel.n_block <= 3
        /\ kernel.n_grid <= kernel.n_parallel
        /\ kernel.n_block <= kernel.n_parallel

C10_Witness ==
    /\ pc = "done"
    /\ sizes.grid = {}
    /\ sizes.block = {}
    /\ kernel.n_parallel = 4
    /\ kernel.n_grid = 2
    /\ kernel.n_block = 3

(***************************************************************************)
(* generate(): band selection, host code generation and the output path.   *)
(***************************************************************************)

\* A band node: whether it is permutable and the coincident flags of its
\* members.
Band == [permutable : BOOLEAN, coincident : SeqsUpTo(BOOLEAN, MaxMembers)]

\* A child of the root of the schedule tree: a chain of band nodes above a
\* leaf or above a node of a type that select_outer_band does not handle.
Subtree == [bands : SeqsUpTo(Band, MaxChain), end : {"leaf", "other"}]

\* band_select_outer_band: the band is taken as the outermost tilable band.
Selectable_any(b) == n_outer_coincidence(b.coincident) # 0
Selectable(b) ==
    ~(~b.permutable \/ n_outer_coincidence(b.coincident) = 0)

\* select_outer_band on the chain t from band i on: "band" if a band is
\* selected, "leaf" if the leaf is reached, "error" on any other node.
RECURSIVE select_outer_band(_, _)
select_outer_band(t, i) ==
    IF i > Len(t.bands)
    THEN (IF t.end = "leaf" THEN "leaf" ELSE "error")
    ELSE IF ~Selectable(t.bands[i]) THEN select_outer_band(t, i + 1)
    ELSE "band"

\* A ppcg_kernel with the isl_id that owns it: the references to the id
\* held by the local variable of create_kernel, by the mark node of the
\* schedule tree, by gen->kernel_mark and by the annotation of a launch
\* node, the references that nothing releases any more, the number of times
\* ppcg_kernel_free_wrap ran on the kernel, and kernel->tree.
NewKernel ==
    [local |-> 1, mark |-> 0, gmark |-> 0, annot |-> 0, lost |-> 0,
     freed |-> 0, tree |-> "none"]

Refs(k) == k.local + k.mark + k.gmark + k.annot + k.lost

\* isl_id_copy / isl_id_free of the reference of holder f to kernel j of ks;
\* freeing the last reference runs ppcg_kernel_free_wrap.
isl_id_copy(ks, j, f) == [ks EXCEPT ![j][f] = @ + 1]
isl_id_free(ks, j, f) ==
    LET k == [ks[j] EXCEPT ![f] = @ - 1]
    IN [ks EXCEPT ![j] = IF Refs(k) = 0 THEN [k EXCEPT !.freed = @ + 1]
                         ELSE k]

\* Free the references of holder f to the kernels in the sequence ids.
RECURSIVE FreeAll(_, _, _)
FreeAll(ks, ids, f) ==
    IF ids = <<>> THEN ks
    ELSE FreeAll(isl_id_free(ks, Head(ids), f), Tail(ids), f)

\* gen->any_parallelism = 0 at the start of generate().
ResetParallelism_kept(any) == any
ResetParallelism(any) == FALSE

\* A pointer left over from an earlier fragment.
Stale(ptr) == IF ptr = 0 THEN 0 ELSE -1

\* Some band of the chain is permutable with a coincident first member.
HasParallelBand(t) ==
    \E i \in 1..Len(t.bands) :
        /\ t.bands[i].permutable
        /\ t.bands[i].coincident # <<>>
        /\ t.bands[i].coincident[1]

NewHist(n) ==
    [frag |-> n, fatal |-> FALSE, found |-> FALSE, uaf |-> FALSE,
     cpu |-> 0, gpu |-> 0, host |-> FALSE, prev |-> "none",
     outside |-> "none"]

GenInit ==
    /\ pc = "idle"
    /\ any_parallelism \in BOOLEAN
    /\ n_child = 0
    /\ child_pos = 0
    /\ host_ok = FALSE
    /\ marks = <<>>
    /\ kern = <<>>
    /\ gen_kernel = 0
    /\ kernel_mark = 0
    /\ mark_pos = 0
    /\ ast = <<>>
    /\ ast_ok = FALSE
    /\ path = "none"
    /\ hist = NewHist(0)
    /\ CoreIdle
    /\ DepIdle
    /\ ProgIdle

\* generate() up to the call of compute_schedule.
BeginGenerate ==
    /\ pc = "idle"
    /\ hist.frag < MaxFrags
    /\ any_parallelism' = ResetParallelism(any_parallelism)
    /\ n_child' \in 1..MaxChildren
    /\ child_pos' = 0
    /\ host_ok' = TRUE
    /\ marks' = <<>>
    /\ kern' = <<>>
    /\ gen_kernel' = Stale(gen_kernel)
    /\ kernel_mark' = Stale(kernel_mark)
    /\ mark_pos' = 0
    /\ ast' = <<>>
    /\ ast_ok' = FALSE
    /\ path' = "none"
    /\ hist' = [NewHist(hist.frag + 1) EXCEPT !.prev = path]
    /\ pc' = "select"
    /\ UNCHANGED <<coreVars, depVars, progVars>>

\* The conditions that end mark_outer_permutable early: read_tile_sizes
\* returns NULL ("sizes"), or an operation on the schedule node fails
\* inside create_kernel ("kernel").
Faults == {"none", "sizes", "kernel"}

\* The part of create_kernel that deals with the identifier: the kernel is
\* allocated, the id is created for it, a copy is put in the mark node and
\* the local reference is freed at the end.  If the node is lost on the way
\* the mark goes with it.
id_of_create_kernel(ks, failed) ==
    LET j == Len(ks) + 1
        k1 == isl_id_copy(Append(ks, NewKernel), j, "mark")
        k2 == IF failed THEN isl_id_free(k1, j, "mark") ELSE k1
    IN isl_id_free(k2, j, "local")

\* One child of the root handled by select_outer_band, with
\* mark_outer_permutable and create_kernel for the band or leaf it selects.
SelectChild ==
    /\ pc = "select"
    /\ child_pos < n_child
    /\ child_pos' = child_pos + 1
    /\ \E t \in Subtree, fault \in Faults :
          LET r == select_outer_band(t, 1)
              lost == r = "error" \/ fault # "none"
              made == r # "error" /\ fault # "sizes"
              freed == FreeAll(kern, marks, "mark")
              ks == IF ~made THEN (IF lost THEN freed ELSE kern)
                    ELSE id_of_create_kernel(IF lost THEN freed ELSE kern,
                                             lost)
          IN IF ~host_ok
             THEN UNCHANGED <<any_parallelism, host_ok, marks, kern,
                              gen_kernel, hist>>
             ELSE /\ any_parallelism' = (any_parallelism \/ r = "band")
                  /\ host_ok' = ~lost
                  /\ kern' = ks
                  /\ marks' = IF lost THEN <<>> ELSE Append(marks, Len(ks))
                  /\ gen_kernel' = IF made THEN Len(ks) ELSE gen_kernel
                  /\ hist' = [hist EXCEPT
                        !.fatal = @ \/ lost,
                        !.found = @ \/ HasParallelBand(t),
                        !.uaf = @ \/ (made /\ ~lost /\ ks[Len(ks)].freed > 0)]
    /\ UNCHANGED <<coreVars, depVars, progVars, n_child, kernel_mark, mark_pos, ast, ast_ok,
                   path, pc>>

\* generate(): if (!gen->any_parallelism) print_cpu.
PrintCpu ==
    /\ pc = "select"
    /\ child_pos = n_child
    /\ ~any_parallelism
    /\ path' = "cpu"
    /\ hist' = [hist EXCEPT !.cpu = @ + 1]
    /\ pc' = "printed"
    /\ UNCHANGED <<coreVars, depVars, progVars, any_parallelism, n_child, child_pos, host_ok,
                   marks, kern, gen_kernel, kernel_mark, mark_pos, ast,
                   ast_ok>>

\* generate(): else compute_copy_in_and_out and the start of
\* generate_host_code; without a host schedule there is no AST.
HostBegin ==
    /\ pc = "select"
    /\ child_pos = n_child
    /\ any_parallelism
    /\ ast_ok' = host_ok
    /\ hist' = [hist EXCEPT !.host = TRUE]
    /\ pc' = "host"
    /\ UNCHANGED <<coreVars, depVars, progVars, any_parallelism, n_child, child_pos, host_ok,
                   marks, kern, gen_kernel, kernel_mark, mark_pos, ast,
                   path>>

\* before_mark for the next kernel mark of the host schedule.
BeforeMark ==
    /\ pc = "host"
    /\ ast_ok
    /\ mark_pos < Len(marks)
    /\ LET id == marks[mark_pos + 1]
           ks == IF kernel_mark > 0
                 THEN [kern EXCEPT ![kernel_mark].gmark = @ - 1,
                                   ![kernel_mark].lost = @ + 1]
                 ELSE kern
       IN /\ kern' = isl_id_copy(ks, id, "gmark")
          /\ kernel_mark' = id
          /\ gen_kernel' = id
    /\ pc' = "mark"
    /\ UNCHANGED <<coreVars, depVars, progVars, any_parallelism, n_child, child_pos, host_ok,
                   marks, mark_pos, ast, ast_ok, path, hist>>

\* create_host_leaf with construct_launch.  gpu_group_references may fail
\* and generate_kernel may return no tree.  Without a schedule no launch
\* node is built, the AST generation ends without a tree and the nodes
\* built before are freed.
CreateHostLeaf ==
    /\ pc = "mark"
    /\ \E group_failed, kernel_failed \in BOOLEAN :
          LET kernel_id == gen_kernel
              no_tree == group_failed \/ kernel_failed
              k1 == [kern EXCEPT ![kernel_id].tree =
                                    IF no_tree THEN "null" ELSE "built"]
              k2 == isl_id_copy(k1, kernel_mark,
                                IF group_failed THEN "lost" ELSE "annot")
          IN /\ hist' = [hist EXCEPT
                   !.fatal = @ \/ no_tree,
                   !.uaf = @ \/ kernel_id < 0 \/ kern[kernel_id].freed > 0]
             /\ IF group_failed
                THEN /\ kern' = FreeAll(k2, ast, "annot")
                     /\ ast' = <<>>
                     /\ ast_ok' = FALSE
                     /\ pc' = "host"
                ELSE /\ kern' = k2
                     /\ ast' = Append(ast, kernel_mark)
                     /\ ast_ok' = ast_ok
                     /\ pc' = "leaf"
    /\ UNCHANGED <<coreVars, depVars, progVars, any_parallelism, n_child, child_pos, host_ok,
                   marks, gen_kernel, kernel_mark, mark_pos, path>>

\* after_mark for the mark node of the kernel just handled.
AfterMark ==
    /\ pc = "leaf"
    /\ IF gen_kernel # 0
       THEN /\ kern' = isl_id_free(kern, kernel_mark, "gmark")
            /\ kernel_mark' = 0
            /\ gen_kernel' = 0
       ELSE UNCHANGED <<kern, kernel_mark, gen_kernel>>
    /\ mark_pos' = mark_pos + 1
    /\ pc' = "host"
    /\ UNCHANGED <<coreVars, depVars, progVars, any_parallelism, n_child, child_pos, host_ok,
                   marks, ast, ast_ok, path, hist>>

\* generate(): ppcg_print_exposed_declarations and ppcg_print_guarded with
\* print_gpu, which reads the kernels annotated to the launch nodes.
PrintGpu ==
    /\ pc = "host"
    /\ ~ast_ok \/ mark_pos = Len(marks)
    /\ path' = "gpu"
    /\ hist' = [hist EXCEPT
          !.gpu = @ + 1,
          !.uaf = @ \/ \E i \in 1..Len(ast) : kern[ast[i]].freed > 0]
    /\ pc' = "printed"
    /\ UNCHANGED <<coreVars, depVars, progVars, any_parallelism, n_child, child_pos, host_ok,
                   marks, kern, gen_kernel, kernel_mark, mark_pos, ast,
                   ast_ok>>

\* generate(): isl_ast_node_free(gen->tree) on the GPU path, then
\* isl_schedule_free(gen->host_schedule).
Teardown ==
    /\ pc = "printed"
    /\ kern' = FreeAll(FreeAll(kern, ast, "annot"), marks, "mark")
    /\ ast' = <<>>
    /\ ast_ok' = FALSE
    /\ marks' = <<>>
    /\ host_ok' = FALSE
    /\ pc' = "idle"
    /\ UNCHANGED <<coreVars, depVars, progVars, any_parallelism, n_child, child_pos,
                   gen_kernel, kernel_mark, mark_pos, path, hist>>

GenNext ==
    \/ BeginGenerate
    \/ SelectChild
    \/ PrintCpu
    \/ HostBegin
    \/ BeforeMark
    \/ CreateHostLeaf
    \/ AfterMark
    \/ PrintGpu
    \/ Teardown

SpecGen == GenInit /\ [][GenNext]_vars

\* C11 (as stated): if a fatal condition occurs while the kernels of a
\* fragment are extracted or generated, generate() compiles the fragment
\* through print_cpu.
C11_Original ==
    (pc = "printed" /\ hist.fatal) => path = "cpu"

\* C11 (amended): after a fatal condition generate() still chooses the
\* output path from any_parallelism alone: the fragment goes through
\* print_cpu exactly when no permutable band with a coincident outer member
\* was selected before the failure; otherwise the GPU print path runs, and
\* it runs without a host AST when the host schedule was lost or
\* create_host_leaf returned no node.
C11_FallbackOnlyWithoutBand ==
    (pc = "printed" /\ hist.fatal) =>
        /\ path = "cpu" <=> ~hist.found
        /\ path = "gpu" <=> hist.host
        /\ (path = "gpu" /\ ~host_ok) => (~ast_ok /\ ast = <<>>)
        /\ (path = "gpu" /\ \E j \in 1..Len(kern) : kern[j].lost > 0)
              => (~ast_ok /\ ast = <<>>)

C11_Witness ==
    /\ pc = "printed"
    /\ hist.fatal
    /\ path = "gpu"
    /\ host_ok
    /\ ~ast_ok
    /\ Len(marks) = 2

\* C12: create_host_leaf returns no launch node for a kernel whose code
\* generation did not complete: every launch node of the host AST is
\* annotated with a kernel that has a tree, and a call in which
\* gpu_group_references fails or generate_kernel yields no tree adds no
\* launch node.
C12_NoLaunchWithoutCode ==
    \A i \in 1..Len(ast) : kern[ast[i]].tree = "built"

\* C13: for each fragment generate() runs exactly one of the two output
\* paths: print_cpu when band selection found no permutable band with a
\* coincident outer member (any_parallelism stays 0, also when leaves were
\* turned into kernel marks), and otherwise the GPU path with host code
\* generation; any_parallelism is reset for every fragment.
C13_ExactlyOnePath ==
    /\ hist.cpu + hist.gpu <= 1
    /\ (pc \in {"select", "host", "mark", "leaf"}) =>
          /\ hist.cpu + hist.gpu = 0
          /\ any_parallelism <=> hist.found
    /\ (pc = "printed" \/ (pc = "idle" /\ hist.frag > 0)) =>
          /\ hist.cpu + hist.gpu = 1
          /\ path = "cpu" <=> hist.cpu = 1
          /\ path = "gpu" <=> hist.gpu = 1
          /\ path = "cpu" <=> ~hist.found
          /\ path = "cpu" => (~hist.host /\ mark_pos = 0)
          /\ path = "gpu" => hist.host

C13_Witness ==
    /\ pc = "printed"
    /\ hist.frag = 2
    /\ hist.prev = "gpu"
    /\ path = "cpu"
    /\ ~hist.fatal
    /\ Len(marks) = 2

\* C14: each kernel is owned by its mark identifier and is destroyed
\* exactly once, only after every reference to the identifier is released:
\* it is never destroyed twice or while a reference is held, it has been
\* destroyed when generate() returns, and the kernel pointer is never used
\* after the kernel is destroyed.
C14_DestroyedOnce ==
    /\ \A j \in 1..Len(kern) :
          /\ kern[j].freed <= 1
          /\ kern[j].freed = 1 => Refs(kern[j]) = 0
    /\ (pc = "idle" /\ hist.frag > 0) =>
          \A j \in 1..Len(kern) : kern[j].freed = 1
    /\ ~hist.uaf

\* create_host_leaf for a leaf of the host schedule that is not below a
\* kernel mark.  Without a kernel in gen->kernel the call returns NULL at
\* once.  Otherwise it generates the code of that kernel and hands a copy
\* of gen->kernel_mark to construct_launch: with a null identifier no
\* launch node can be annotated, with the mark an earlier fragment left
\* behind a launch node is built.  Without a node the AST generation ends
\* without a tree and the nodes built before are freed.
HostLeafOutside ==
    /\ pc = "host"
    /\ ast_ok
    /\ IF gen_kernel <= 0
       THEN /\ kern' = FreeAll(kern, ast, "annot")
            /\ ast' = <<>>
            /\ ast_ok' = FALSE
            /\ hist' = [hist EXCEPT !.outside = "failed",
                                    !.uaf = @ \/ gen_kernel < 0]
       ELSE \E group_failed, kernel_failed \in BOOLEAN :
               LET no_tree == group_failed \/ kernel_failed
                   k1 == [kern EXCEPT ![gen_kernel].tree =
                                         IF no_tree THEN "null" ELSE "built"]
                   built == ~group_failed /\ kernel_mark # 0
               IN /\ hist' = [hist EXCEPT
                        !.fatal = @ \/ no_tree \/ ~built,
                        !.uaf = @ \/ kern[gen_kernel].freed > 0,
                        !.outside = IF built THEN "launched"
                                    ELSE "generated"]
                  /\ IF built
                     THEN /\ kern' = k1
                          /\ UNCHANGED <<ast, ast_ok>>
                     ELSE /\ kern' = FreeAll(k1, ast, "annot")
                          /\ ast' = <<>>
                          /\ ast_ok' = FALSE
    /\ UNCHANGED <<coreVars, depVars, progVars, any_parallelism, n_child,
                   child_pos, host_ok, marks, gen_kernel, kernel_mark,
                   mark_pos, path, pc>>

\* The callbacks of generate_host_code called for any host schedule.
HostNext ==
    \/ GenNext
    \/ HostLeafOutside

SpecHost == GenInit /\ [][HostNext]_vars

Edges == 1..MaxEdges

\* The array an order dependence is derived from: a scalar without compound
\* element, an array that the independence lists as local, or another array.
ArrayKinds == {"scalar", "local", "array"}

\* The relations of the scop: dep_flow, dep_forced, dep_false, the filter of
\* the independence, the order dependences with the array of each, and
\* prog->array_order.
Deps ==
    [flow : SUBSET Edges, forced : SUBSET Edges, false : SUBSET Edges,
     independence : SUBSET Edges, order : SUBSET Edges,
     array : [Edges -> ArrayKinds], array_order : SUBSET Edges]

\* The order dependences of one array without the pairs of the independence,
\* unless the array is local to it.
remove_independences(d, kind, order) ==
    IF kind = "local" THEN order ELSE order \ d.independence

\* prog->array_order: the order dependences of the non-scalar arrays.
collect_order_dependences(d) ==
    UNION {remove_independences(d, kind,
                                {e \in d.order : d.array[e] = kind}) :
              kind \in ArrayKinds \ {"scalar"}}

\* The coincidence constraints with live range reordering.
coincidence_unordered(validity, independence, array_order) ==
    validity \ independence
coincidence_filtered(validity, independence, array_order) ==
    (validity \cup array_order) \ independence
coincidence_reordering(validity, independence, array_order) ==
    (validity \ independence) \cup array_order

\* The validity, coincidence and proximity constraints handed to the
\* scheduler.
schedule_constraints(d, reordering) ==
    IF reordering
    THEN LET proximity0 == d.flow
             validity == proximity0 \cup d.forced
             proximity == proximity0 \cup d.false
         IN [validity |-> validity,
             coincidence |->
                 coincidence_reordering(validity, d.independence,
                                        d.array_order),
             proximity |-> proximity]
    ELSE LET dd == d.false \cup d.flow
         IN [validity |-> dd, coincidence |-> dd, proximity |-> dd]

\* The sign of the distance of a dependence in one schedule dimension.
Dist == {-1, 0, 1}

\* Dimension i is the first one in which the distance v is not zero.
Carries(v, i) == v[i] # 0 /\ \A c \in 1..(i - 1) : v[c] = 0

\* What isl_schedule_constraints_compute_schedule may return for the
\* constraints c: every validity dependence has a lexicographically
\* non-negative distance, and a dimension is marked coincident only if no
\* coincidence dependence is carried by it.
Schedules(c) ==
    {s \in UNION {[dist : [Edges -> [1..n -> Dist]],
                   coincident : [1..n -> BOOLEAN]] : n \in 0..MaxSchedDims} :
        /\ \A e \in c.validity :
              \A i \in DOMAIN s.coincident : Carries(s.dist[e], i) =>
                                                 s.dist[e][i] > 0
        /\ \A i \in DOMAIN s.coincident :
              s.coincident[i] =>
                 \A e \in c.coincidence : ~Carries(s.dist[e], i)}

DepInit ==
    /\ pc = "start"
    /\ dep \in {d \in Deps : d.array_order = {}}
    /\ live_range_reordering \in BOOLEAN
    /\ sc = <<>>
    /\ schedule = <<>>
    /\ CoreIdle
    /\ GenIdle
    /\ ProgIdle

\* collect_order_dependences, called when the program is set up.
CollectOrderDependences ==
    /\ pc = "start"
    /\ dep' = [dep EXCEPT !.array_order = collect_order_dependences(dep)]
    /\ pc' = "collected"
    /\ UNCHANGED <<coreVars, genVars, progVars, live_range_reordering, sc, schedule>>

\* compute_schedule up to the selection of the outer band.
ComputeSchedule ==
    /\ pc = "collected"
    /\ sc' = schedule_constraints(dep, live_range_reordering)
    /\ schedule' \in Schedules(sc')
    /\ pc' = "done"
    /\ UNCHANGED <<coreVars, genVars, progVars, dep, live_range_reordering>>

DepNext == CollectOrderDependences \/ ComputeSchedule

SpecDep == DepInit /\ [][DepNext]_vars

\* C15: with live range reordering no schedule dimension that carries a
\* (non-zero) array order dependence is marked coincident by the schedule
\* computed in compute_schedule.
C15_NoCoincidentCarrier ==
    (pc = "done" /\ live_range_reordering) =>
        \A i \in DOMAIN schedule.coincident :
           \A e \in dep.array_order :
              Carries(schedule.dist[e], i) => ~schedule.coincident[i]

C15_Witness ==
    /\ pc = "done"
    /\ live_range_reordering
    /\ \E e \in dep.array_order :
          /\ e \notin dep.flow \cup dep.forced
          /\ e \in dep.independence
          /\ \E i \in DOMAIN schedule.coincident :
                Carries(schedule.dist[e], i) /\ schedule.dist[e][i] < 0

\* C16: with live range reordering validity = flow + forced, proximity =
\* flow + false and coincidence = (validity - independence) + array_order,
\* so that every array order dependence is a coincidence constraint, also
\* one that is an independence; without it all three are flow + false.
C16_Constraints ==
    pc = "done" =>
        IF live_range_reordering
        THEN /\ sc.validity = dep.flow \cup dep.forced
             /\ sc.proximity = dep.flow \cup dep.false
             /\ \A e \in Edges :
                   e \in sc.coincidence <=>
                      \/ e \in dep.array_order
                      \/ /\ e \in dep.flow \/ e \in dep.forced
                         /\ e \notin dep.independence
        ELSE /\ sc.validity = dep.flow \cup dep.false
             /\ sc.coincidence = dep.flow \cup dep.false
             /\ sc.proximity = dep.flow \cup dep.false

C16_Witness ==
    /\ pc = "done"
    /\ live_range_reordering
    /\ \E e \in dep.array_order \cap dep.independence : e \in sc.coincidence
    /\ dep.false # {}
    /\ sc.validity # sc.proximity

(***************************************************************************)
(* extract_access: the exact_write flag of an access reference.            *)
(***************************************************************************)

\* The array elements one reference may access: the elements of an outer
\* array or those of a member of a structure, by index.
RefIndex == 1..MaxRefElem
RefArrays == {"outer", "member"}
RefSets(a) == SUBSET {<<a, i>> : i \in RefIndex}

\* The access expressions of pet: an expression that does not read has no
\* may-read, one that does not write has no may-write, and the must-writes
\* are may-writes.
Exprs ==
    UNION {{x \in [read : BOOLEAN, write : BOOLEAN, may_read : RefSets(a),
                   may_write : RefSets(a), must_write : RefSets(a)] :
               /\ ~x.read => x.may_read = {}
               /\ ~x.write => x.may_write = {}
               /\ x.must_write \subseteq x.may_write} : a \in RefArrays}

\* data->any_to_outer: every array element is mapped to the element of its
\* outer array.
any_to_outer(e) == <<"outer", e[2]>>
apply_range(S) == {any_to_outer(e) : e \in S}

\* isl_union_map_is_equal, as an int.
is_equal(A, B) == IF A = B THEN 1 ELSE 0

\* access->exact_write as extract_access sets it.
exact_write_strict(x, single_expression) ==
    IF ~x.write THEN 0
    ELSE IF ~single_expression THEN 0
    ELSE is_equal(x.must_write, apply_range(x.may_read \cup x.may_write))
exact_write(x, single_expression) ==
    IF ~x.write THEN 1
    ELSE IF ~single_expression THEN 0
    ELSE is_equal(x.must_write, apply_range(x.may_read \cup x.may_write))

AccessInit ==
    /\ pc = "start"
    /\ expr \in Exprs
    /\ data \in [single_expression : BOOLEAN]
    /\ access = <<>>
    /\ AccessRestIdle

\* extract_access on one access expression.
ExtractAccess ==
    /\ pc = "start"
    /\ access' = [read |-> expr.read, write |-> expr.write,
                  exact_write |-> exact_write(expr, data.single_expression)]
    /\ pc' = "done"
    /\ UNCHANGED <<accessRest, expr, data>>

AccessNext == ExtractAccess

SpecAccess == AccessInit /\ [][AccessNext]_vars

\* C18 as stated: the exact_write flag is set exactly for a write in an
\* expression statement whose may-write equals its must-write, and is not
\* set for any other access reference.
C18_Original ==
    pc = "done" =>
        (access.exact_write = 1 <=>
            /\ expr.write
            /\ data.single_expression
            /\ expr.may_write = expr.must_write)

\* C18: the exact_write flag is set for every access reference that does
\* not write; for a write it is set exactly if the statement is a single
\* expression and the must-write equals all may-accesses (reads included)
\* on the outer array, and then the may-write equals the must-write.
C18_ExactWrite ==
    pc = "done" =>
        /\ ~expr.write => access.exact_write = 1
        /\ expr.write =>
              (access.exact_write = 1 <=>
                  /\ data.single_expression
                  /\ \A i \in RefIndex :
                        <<"outer", i>> \in expr.must_write <=>
                           \E a \in RefArrays :
                              <<a, i>> \in expr.may_read \cup expr.may_write)
        /\ (expr.write /\ access.exact_write = 1) =>
              /\ expr.may_write = expr.must_write
              /\ expr.may_read \subseteq expr.must_write
        /\ access.exact_write \in {0, 1}

C18_Witness ==
    /\ pc = "done"
    /\ ~expr.write /\ expr.read /\ expr.may_read # {}
    /\ access.exact_write = 1

(***************************************************************************)
(* extract_array_info: the bounds of an array and its linearization.       *)
(***************************************************************************)

\* What is known of the upper bound of the extent in one dimension: it is
\* a constant, it depends on the parameters, or there is none.
ExtentKinds == {"cst", "param", "unbounded"}

\* The negation of C on an int.
Not(x) == IF x = 0 THEN 1 ELSE 0

\* isl_set_dim_has_upper_bound on the extent in one dimension.
dim_has_upper_bound(k) == IF k = "unbounded" THEN 0 ELSE 1

\* The bound computed from "dom": isl_set_dim_max and the operations on its
\* result return NULL on NULL.
dim_bound(dom) == IF dom = "null" THEN "null" ELSE dom

\* isl_pw_aff_is_cst: an error (-1) on NULL.
pw_aff_is_cst(bound) ==
    IF bound = "null" THEN -1 ELSE IF bound = "cst" THEN 1 ELSE 0

\* The loop over the dimensions of extract_array_info from dimension i on.
RECURSIVE extract_bounds(_, _, _)
extract_bounds(extent, i, inf) ==
    IF i > Len(extent) THEN inf
    ELSE LET unbounded == Not(dim_has_upper_bound(extent[i])) # 0
             dom == IF unbounded THEN "null" ELSE extent[i]
             bound == dim_bound(dom)
         IN extract_bounds(extent, i + 1,
                [inf EXCEPT !.diag = IF unbounded THEN @ + 1 ELSE @,
                            !.bound = Append(@, bound),
                            !.linearize =
                                IF Not(pw_aff_is_cst(bound)) # 0
                                THEN 1 ELSE @])

\* extract_array_info: the returned value and the fields of "info".
extract_array_info(p, linearize) ==
    LET inf == [ret |-> 0, linearize |-> linearize, bound |-> <<>>,
                accessed |-> 0, diag |-> 0]
    IN IF p.empty < 0 THEN [inf EXCEPT !.ret = -1]
       ELSE extract_bounds(p.extent, 1,
                           [inf EXCEPT !.accessed = Not(p.empty)])

ArrayInit ==
    /\ pc = "start"
    /\ pa \in [extent : SeqsUpTo(ExtentKinds, MaxIndex), empty : {-1, 0, 1}]
    /\ linearize_device_arrays \in {0, 1}
    /\ info = <<>>
    /\ ArrayRestIdle

\* extract_array_info on one array.
ExtractArrayInfo ==
    /\ pc = "start"
    /\ info' = extract_array_info(pa, linearize_device_arrays)
    /\ pc' = "done"
    /\ UNCHANGED <<arrayRest, pa, linearize_device_arrays>>

ArrayNext == ExtractArrayInfo

SpecArray == ArrayInit /\ [][ArrayNext]_vars

\* C19: when a dimension of the array has no upper bound, extract_array_info
\* prints a diagnostic, returns success and sets info->linearize to 1
\* whatever the linearize_device_arrays option is.
C19_ForcedLinearize ==
    (/\ pc = "done"
     /\ pa.empty >= 0
     /\ \E i \in DOMAIN pa.extent : pa.extent[i] = "unbounded") =>
        /\ info.diag >= 1
        /\ info.ret = 0
        /\ info.linearize = 1

(***************************************************************************)
(* add_group_schedule: the barriers that go with the copies.               *)
(***************************************************************************)

\* The level at which group j is copied.
CopyPos(j) == groups[j].last_shared + 1 - tile_first

\* The groups that body_schedule hands to add_group_schedule.
Tiled == {j \in DOMAIN groups : HasTile(groups[j])}

ReadSyncs == {e \in Syncs : e.site = "copyin"}

\* C20: with n = shared_len - tile_first and pos the level of the group, a
\* copy-out is followed by a barrier at level pos with rank 2s+2 exactly
\* when pos # 0 and not (pos = n and the tile is private); a copy-in gets a
\* barrier at level n with rank -1 exactly when the tile is not private; a
\* group with an empty access gets neither a copy nor a barrier.
C20_CopyBarriers ==
    pc = "done" =>
        LET n == shared_len - tile_first
            s == Len(groups)
            out(j) == /\ groups[j].writes
                      /\ CopyPos(j) # 0
                      /\ ~(CopyPos(j) = n /\ groups[j].private_tile)
            in(j) == groups[j].reads /\ ~groups[j].private_tile
        IN /\ \A j \in Tiled :
                 /\ (\E e \in Writes : e.grp = j) <=> groups[j].writes
                 /\ (\E e \in Reads : e.grp = j) <=> groups[j].reads
                 /\ \A e \in Reads \cup Writes :
                       e.grp = j => e.pos = CopyPos(j)
           /\ \A e \in Reads \cup Writes : e.grp \in Tiled
           /\ \A p \in 0..n :
                 Entry("sync", 0, "copyout", p, 2 * s + 2) \in res <=>
                    \E j \in Tiled : out(j) /\ CopyPos(j) = p
           /\ \A e \in WriteSyncs : e.val = 2 * s + 2 /\ e.pos \in 0..n
           /\ Entry("sync", 0, "copyin", n, -1) \in res <=>
                 \E j \in Tiled : in(j)
           /\ \A e \in ReadSyncs : e.val = -1 /\ e.pos = n

C20_Witness ==
    /\ pc = "done"
    /\ shared_len - tile_first >= 1
    /\ \E j \in Tiled :
          /\ groups[j].writes /\ groups[j].reads
          /\ groups[j].private_tile
          /\ CopyPos(j) = shared_len - tile_first
    /\ WriteSyncs = {}
    /\ ReadSyncs = {}
    /\ \E j \in Tiled : ~groups[j].writes /\ ~groups[j].reads

(***************************************************************************)
(* body_schedule: the barrier after the kernel body.                       *)
(***************************************************************************)

\* C21 as stated: body_schedule adds exactly one unconditional barrier after
\* the kernel body, at the innermost shared level, whatever the number of
\* groups, and its rank is 2s+2.
C21_Original ==
    pc = "done" =>
        KernelSyncs = {Entry("sync", 0, "kernel", shared_len - tile_first,
                             2 * Len(groups) + 2)}

\* C21: body_schedule adds exactly one unconditional barrier after the
\* kernel body, at the innermost shared level, whatever the number of
\* groups, and its rank is 1+s; 2s+2 is the rank of the barriers that
\* follow the copies to global memory.
C21_BodyBarrier ==
    pc = "done" =>
        /\ KernelSyncs = {Entry("sync", 0, "kernel", shared_len - tile_first,
                                1 + Len(groups))}
        /\ \A e \in WriteSyncs : e.val = 2 * Len(groups) + 2

C21_Witness ==
    /\ pc = "done"
    /\ Len(groups) = 0
    /\ Cardinality(KernelSyncs) = 1
    /\ shared_len - tile_first >= 1

(***************************************************************************)
(* select_outer_tilable_band: the walk over the schedule tree.             *)
(***************************************************************************)

\* The nodes of the schedule tree, as the walk meets them.  The children
\* of a sequence are filters.
NodeTypes == {"domain", "filter", "leaf", "band", "sequence"}
NoBand == [permutable |-> FALSE, coincident |-> <<>>]
Node(type, b, n) == [type |-> type, band |-> b, n |-> n]

\* struct band_info: the prefix is a set of pieces, one per kernel, each of
\* "len" coordinates of which the last "pad" are fixed to 0.
NoInfo == [tile_first |-> -1, prefix |-> {}, suffix |-> {}]

NoEvent == [kind |-> "none"]

\* The frame of a call of select_outer_band that has not returned.
Frame(node, pos) ==
    [type |-> node.type, members |-> Len(node.band.coincident),
     n |-> node.n, pos |-> pos, infos |-> <<>>]

\* The member counts of the bands among the ancestors, added up.
RECURSIVE Depth(_)
Depth(anc) ==
    IF anc = <<>> THEN 0
    ELSE Depth(SubSeq(anc, 1, Len(anc) - 1))
         + (IF anc[Len(anc)].type = "band"
            THEN anc[Len(anc)].members ELSE 0)

\* The nodes that can be the child of the last node of "anc".
Children(anc) ==
    IF anc[Len(anc)].type = "sequence" THEN {Node("filter", NoBand, 0)}
    ELSE {Node("leaf", NoBand, 0)}
         \cup (IF Len(anc) < MaxPath
               THEN {Node("band", b, 0) : b \in Band} ELSE {})
         \cup (IF Len(anc) + 2 <= MaxPath
               THEN {Node("sequence", NoBand, n) : n \in 1..MaxChildren}
               ELSE {})

\* The position handed to the walk of the child of a band of n members.
band_child_pos_same(pos, n) == pos
band_child_pos(pos, n) == pos + n

\* extend_range: the pieces of src_len coordinates get coordinates fixed to
\* 0 up to a length of dst_len.
extend_range_short(prefix, src_len, dst_len) ==
    {p \in prefix : p.len = src_len}
extend_range(prefix, src_len, dst_len) ==
    {[p EXCEPT !.len = dst_len, !.pad = @ + (dst_len - src_len)] :
        p \in {q \in prefix : q.len = src_len}}

\* The first loop of list_select_outer_band: the maximum of the tile_first
\* of the children, starting from 0.
RECURSIVE max_tile_first(_)
max_tile_first(infos) ==
    IF infos = <<>> THEN 0
    ELSE LET m == max_tile_first(SubSeq(infos, 1, Len(infos) - 1))
             t == infos[Len(infos)].tile_first
         IN IF t > m THEN t ELSE m

\* The second loop of list_select_outer_band.
align_infos(infos) ==
    LET m == max_tile_first(infos)
    IN [i \in DOMAIN infos |->
           IF infos[i].tile_first = m THEN infos[i]
           ELSE [infos[i] EXCEPT
                    !.prefix = extend_range(@, infos[i].tile_first, m),
                    !.tile_first = m]]

\* The info list_select_outer_band reports.
list_info(infos) ==
    [tile_first |-> infos[1].tile_first,
     prefix |-> UNION {infos[i].prefix : i \in DOMAIN infos},
     suffix |-> UNION {infos[i].suffix : i \in DOMAIN infos}]

\* mark_outer_permutable at the current node: a kernel is created for the
\* band, or for a zero-dimensional band inserted at a leaf.
mark_outer_permutable(w) ==
    LET id == Len(w.kernels) + 1
        leaf == w.cur.type = "leaf"
        k == [id |-> id,
              tile_len |-> IF leaf THEN 0 ELSE Len(w.cur.band.coincident),
              inserted |-> leaf,
              depth |-> Depth(w.path)]
    IN [w EXCEPT !.kernels = Append(@, k),
                 !.info = [tile_first |-> w.pos,
                           prefix |-> {[k |-> id, len |-> Depth(w.path),
                                        pad |-> 0]},
                           suffix |-> {id}]]

BandInit ==
    /\ pc = "walk"
    /\ walk = [cur |-> Node("domain", NoBand, 0), pos |-> 0, path |-> <<>>,
               info |-> NoInfo, kernels |-> <<>>, last |-> NoEvent,
               tile_first |-> -1, any_parallelism |-> FALSE]
    /\ WalkRestIdle

\* select_outer_band at a domain or filter node, up to the call on the
\* child.
SelectDomainFilter ==
    /\ pc = "walk"
    /\ walk.cur.type \in {"domain", "filter"}
    /\ LET anc == Append(walk.path, Frame(walk.cur, walk.pos))
       IN \E c \in Children(anc) :
             walk' = [walk EXCEPT
                         !.path = anc, !.cur = c,
                         !.last = [kind |-> walk.cur.type,
                                   pos |-> walk.pos]]
    /\ UNCHANGED <<pc, walkRest>>

\* band_select_outer_band, up to the call on the child if there is one.
BandSelectOuterBand ==
    /\ pc = "walk"
    /\ walk.cur.type = "band"
    /\ LET b == walk.cur.band
           n == Len(b.coincident)
           ev == [kind |-> "band", band |-> b, pos |-> walk.pos,
                  depth |-> Depth(walk.path), selected |-> Selectable(b)]
       IN IF ~Selectable(b)
          THEN LET anc == Append(walk.path, Frame(walk.cur, walk.pos))
               IN /\ \E c \in Children(anc) :
                        walk' = [walk EXCEPT
                                    !.path = anc, !.cur = c,
                                    !.pos = band_child_pos(walk.pos, n),
                                    !.last = ev]
                  /\ pc' = pc
          ELSE /\ walk' = [mark_outer_permutable(walk) EXCEPT
                              !.any_parallelism = TRUE, !.last = ev]
               /\ pc' = "return"
    /\ UNCHANGED walkRest

\* leaf_select_outer_band
LeafSelectOuterBand ==
    /\ pc = "walk"
    /\ walk.cur.type = "leaf"
    /\ walk' = [mark_outer_permutable(walk) EXCEPT
                   !.last = [kind |-> "leaf", pos |-> walk.pos,
                             depth |-> Depth(walk.path)]]
    /\ pc' = "return"
    /\ UNCHANGED walkRest

\* list_select_outer_band, up to the call on the first child.
ListSelectBegin ==
    /\ pc = "walk"
    /\ walk.cur.type = "sequence"
    /\ LET anc == Append(walk.path, Frame(walk.cur, walk.pos))
       IN \E c \in Children(anc) :
             walk' = [walk EXCEPT
                         !.path = anc, !.cur = c, !.last = NoEvent]
    /\ UNCHANGED <<pc, walkRest>>

\* The return of select_outer_band to a domain, filter or band node.
Return ==
    /\ pc = "return"
    /\ walk.path # <<>>
    /\ walk.path[Len(walk.path)].type # "sequence"
    /\ walk' = [walk EXCEPT
                   !.path = SubSeq(@, 1, Len(@) - 1),
                   !.pos = walk.path[Len(walk.path)].pos,
                   !.last = NoEvent]
    /\ UNCHANGED <<pc, walkRest>>

\* list_select_outer_band from the return of a child that is not the last
\* one up to the call on the next child.
ListSelectNext ==
    /\ pc = "return"
    /\ walk.path # <<>>
    /\ LET top == walk.path[Len(walk.path)]
           infos == Append(top.infos, walk.info)
       IN /\ top.type = "sequence"
          /\ Len(infos) < top.n
          /\ \E c \in Children(walk.path) :
                walk' = [walk EXCEPT
                            !.path[Len(walk.path)].infos = infos,
                            !.cur = c, !.pos = top.pos, !.info = NoInfo,
                            !.last = NoEvent]
    /\ pc' = "walk"
    /\ UNCHANGED walkRest

\* list_select_outer_band from the return of the last child on.
ListSelectEnd ==
    /\ pc = "return"
    /\ walk.path # <<>>
    /\ LET top == walk.path[Len(walk.path)]
           infos == Append(top.infos, walk.info)
           aligned == align_infos(infos)
       IN /\ top.type = "sequence"
          /\ Len(infos) = top.n
          /\ walk' = [walk EXCEPT
                         !.path = SubSeq(@, 1, Len(@) - 1),
                         !.pos = top.pos,
                         !.info = list_info(aligned),
                         !.last = [kind |-> "list", before |-> infos,
                                   after |-> aligned]]
    /\ UNCHANGED <<pc, walkRest>>

\* select_outer_tilable_band after the walk.
SelectOuterTilableBand ==
    /\ pc = "return"
    /\ walk.path = <<>>
    /\ walk' = [walk EXCEPT !.tile_first = walk.info.tile_first,
                            !.last = NoEvent]
    /\ pc' = "done"
    /\ UNCHANGED walkRest

BandNext ==
    \/ SelectDomainFilter
    \/ BandSelectOuterBand
    \/ LeafSelectOuterBand
    \/ ListSelectBegin
    \/ Return
    \/ ListSelectNext
    \/ ListSelectEnd
    \/ SelectOuterTilableBand

SpecBand == BandInit /\ [][BandNext]_vars

\* C22: the walk starts at the root with position 0; at a band it stops
\* and creates a kernel iff the band is permutable and its first member is
\* coincident, with tile_first the sum of the member counts of the ancestor
\* bands; otherwise it goes to the child with the position increased by
\* the member count; domain and filter nodes keep the position; a leaf
\* always gets a kernel over a zero-dimensional band.
C22_BandSelection ==
    LET last == walk.last
        n == Len(walk.kernels)
    IN /\ pc = "walk" => walk.pos = Depth(walk.path)
       /\ last.kind \in {"domain", "filter"} =>
             pc = "walk" /\ walk.pos = last.pos
       /\ last.kind = "band" =>
             /\ last.selected <=>
                   /\ last.band.permutable
                   /\ Len(last.band.coincident) >= 1
                   /\ last.band.coincident[1]
             /\ last.selected =>
                   /\ pc = "return"
                   /\ walk.info.tile_first = last.depth
                   /\ n >= 1
                   /\ walk.kernels[n].tile_len = Len(last.band.coincident)
                   /\ ~walk.kernels[n].inserted
                   /\ walk.info.suffix = {n}
             /\ ~last.selected =>
                   /\ pc = "walk"
                   /\ walk.pos = last.pos + Len(last.band.coincident)
                   /\ walk.path[Len(walk.path)].type = "band"
       /\ last.kind = "leaf" =>
             /\ pc = "return"
             /\ walk.info.tile_first = last.depth
             /\ n >= 1
             /\ walk.kernels[n].tile_len = 0
             /\ walk.kernels[n].inserted
             /\ walk.info.suffix = {n}

C22_Witness ==
    /\ walk.last.kind = "band"
    /\ walk.last.selected
    /\ walk.last.depth >= 1
    /\ walk.info.tile_first = walk.last.depth

\* C23: after list_select_outer_band every child has the same tile_first,
\* the maximum over the children, and a prefix of that length whose added
\* coordinates are 0; the list reports that maximum and the unions of the
\* prefixes and of the suffixes; gen->tile_first is the maximum depth of
\* the kernels of the fragment.
C23_ListAlignment ==
    /\ walk.last.kind = "list" =>
          LET before == walk.last.before
              after == walk.last.after
              m == CHOOSE t \in {before[i].tile_first : i \in DOMAIN before} :
                      \A i \in DOMAIN before : before[i].tile_first <= t
          IN /\ DOMAIN after = DOMAIN before
             /\ \A i \in DOMAIN before :
                   /\ after[i].tile_first = m
                   /\ after[i].suffix = before[i].suffix
                   /\ \A p \in after[i].prefix : p.len = m
                   /\ {p.k : p \in after[i].prefix} = before[i].suffix
                   /\ \A q \in before[i].prefix :
                         \E p \in after[i].prefix :
                            /\ p.k = q.k
                            /\ p.len - p.pad = q.len - q.pad
             /\ walk.info.tile_first = m
             /\ walk.info.prefix =
                   UNION {after[i].prefix : i \in DOMAIN after}
             /\ walk.info.suffix =
                   UNION {before[i].suffix : i \in DOMAIN before}
    /\ pc = "done" =>
          /\ \A i \in DOMAIN walk.kernels :
                /\ walk.kernels[i].depth <= walk.tile_first
                /\ \E p \in walk.info.prefix :
                      /\ p.k = i
                      /\ p.len = walk.tile_first
                      /\ p.len - p.pad = walk.kernels[i].depth
          /\ \E i \in DOMAIN walk.kernels :
                walk.kernels[i].depth = walk.tile_first

C23_Witness ==
    /\ walk.last.kind = "list"
    /\ \E i, j \in DOMAIN walk.last.before :
          walk.last.before[i].tile_first < walk.last.before[j].tile_first
    /\ walk.last.before # walk.last.after

(***************************************************************************)
(* atomic_ancestors: the AST loop types of the bands above a kernel.       *)
(***************************************************************************)

\* A node of the tree: a band with the AST loop type of each member (a
\* band above an earlier kernel is atomic already), or a node of another
\* type.
TreeNodes ==
    {[type |-> "other", loop |-> <<>>]}
    \cup {[type |-> "band", loop |-> l] :
             l \in {<<"default">>, <<"atomic">>, <<"default", "default">>}}

\* The position of a node: the child positions from the root down to it.
Positions == SeqsUpTo(1..MaxChildren, MaxUp)

Front(a) == SubSeq(a, 1, Len(a) - 1)
Last(a) == a[Len(a)]

\* The positions of a tree that holds the node at position "at": the
\* ancestors of the node and all their children.
TreeDomains(at) ==
    {{<<>>} \cup UNION {{Append(SubSeq(at, 1, i - 1), c) : c \in 1..n[i]} :
                           i \in 1..Len(at)} :
        n \in {f \in [1..Len(at) -> 1..MaxChildren] :
                  \A i \in 1..Len(at) : at[i] <= f[i]}}

isl_schedule_node_has_parent(n) == n.at # <<>>
isl_schedule_node_get_child_position(n) == Last(n.at)
isl_schedule_node_parent(n) == [n EXCEPT !.at = Front(@)]
isl_schedule_node_child_first(n, pos) == [n EXCEPT !.at = Append(@, 1)]
isl_schedule_node_child(n, pos) == [n EXCEPT !.at = Append(@, pos)]

\* atomic: all members of the band get the loop type atomic.
atomic(n) ==
    [n EXCEPT !.tree[n.at].loop = [i \in DOMAIN @ |-> "atomic"]]

RECURSIVE atomic_ancestors(_)
atomic_ancestors(n) ==
    IF ~isl_schedule_node_has_parent(n) THEN n
    ELSE LET pos == isl_schedule_node_get_child_position(n)
             parent == isl_schedule_node_parent(n)
             marked == IF parent.tree[parent.at].type = "band"
                       THEN atomic(parent) ELSE parent
         IN isl_schedule_node_child(atomic_ancestors(marked), pos)

NodeInit ==
    /\ pc = "start"
    /\ \E at \in Positions : \E dom \in TreeDomains(at) :
          \E t \in [dom -> TreeNodes] :
             /\ t[at].type = "band"
             /\ sched_node = [in |-> [tree |-> t, at |-> at],
                              out |-> [tree |-> t, at |-> at]]
    /\ NodeRestIdle

\* node = atomic_ancestors(node) in create_kernel.
AtomicAncestors ==
    /\ pc = "start"
    /\ sched_node' = [sched_node EXCEPT !.out = atomic_ancestors(sched_node.in)]
    /\ pc' = "done"
    /\ UNCHANGED nodeRest

NodeNext == AtomicAncestors

SpecNode == NodeInit /\ [][NodeNext]_vars

\* The proper ancestors of the node at position "at".
Ancestors(at) == {SubSeq(at, 1, i) : i \in 0..(Len(at) - 1)}

LocalArrays == [force_private : BOOLEAN, private_tile : BOOLEAN]

\* The state interchange_for_unroll is called in.  "window" is
\* kernel->n_parallel + kernel->n_block, "unroll" what check_unroll finds
\* for the groups with a private tile, and "sched" names the schedule
\* dimension found at each output position.
UnrollState(sl, w, r, a, u) ==
    [shared_len |-> sl, window |-> w, thread_tiled_len |-> sl + w + r,
     unroll |-> u, array |-> a,
     any_force_private |-> \E i \in DOMAIN a : a[i].force_private,
     first_unroll |-> 0,
     sched |-> [i \in 0..(sl + w + r - 1) |-> i]]

\* The marks check_unroll can leave for "n" dimensions: none if no group
\* has a private tile.
UnrollMarks(n, a) ==
    {f \in [0..(n - 1) -> BOOLEAN] :
        (\A i \in DOMAIN a : ~a[i].private_tile) => \A d \in DOMAIN f : ~f[d]}

\* The private tile of a group is kept by remove_private_tiles.
keeps_tile_never(local) == FALSE
keeps_tile(local) == local.force_private

remove_private_tiles(array) ==
    [i \in DOMAIN array |->
        IF keeps_tile(array[i]) THEN array[i]
        ELSE [array[i] EXCEPT !.private_tile = FALSE]]

\* The loops that fill perm for the dimensions from i up to "to" that are
\* marked (or not marked) in unroll; the result is perm and j.
RECURSIVE perm_loop(_, _, _, _, _, _)
perm_loop(unroll, marked, i, to, perm, j) ==
    IF i >= to THEN [perm |-> perm, j |-> j]
    ELSE IF unroll[i] = marked
         THEN perm_loop(unroll, marked, i + 1, to, [perm EXCEPT ![i] = j],
                        j + 1)
         ELSE perm_loop(unroll, marked, i + 1, to, perm, j)

\* gen->first_unroll for the value of j after the unmarked dimensions.
first_unroll_total(j, sl) == j
first_unroll(j, sl) == j - sl

\* permutation: input dimension i becomes output dimension pos[i].
permutation(sched, pos) ==
    [o \in DOMAIN sched |->
        sched[CHOOSE i \in DOMAIN pos : pos[i] = o]]

interchange_for_unroll(g) ==
    LET wend == g.shared_len + g.window
        g0 == [g EXCEPT !.first_unroll = -1]
        dims == 0..(g.thread_tiled_len - 1)
    IN IF ~\E i \in g.shared_len..(wend - 1) : g.unroll[i] THEN g0
       ELSE IF \E i \in wend..(g.thread_tiled_len - 1) : g.unroll[i]
            THEN g0
       ELSE IF g.any_force_private
            THEN [g0 EXCEPT !.array = remove_private_tiles(@)]
       ELSE LET p1 == [perm |-> [i \in dims |->
                                    IF i < g.shared_len THEN i ELSE -1],
                       j |-> g.shared_len]
                p2 == perm_loop(g.unroll, FALSE, g.shared_len,
                                g.thread_tiled_len, p1.perm, p1.j)
                p3 == perm_loop(g.unroll, TRUE, g.shared_len, wend,
                                p2.perm, p2.j)
            IN [g0 EXCEPT !.first_unroll = first_unroll(p2.j, g.shared_len),
                          !.sched = permutation(@, p3.perm)]

UnrollInit ==
    /\ pc = "start"
    /\ \E sl \in 0..MaxSharedLen, w \in 0..MaxWindow, r \in 0..MaxRest,
          a \in SeqsUpTo(LocalArrays, MaxArrays) :
          \E u \in UnrollMarks(sl + w + r, a) :
             ugen = [in |-> UnrollState(sl, w, r, a, u),
                     out |-> UnrollState(sl, w, r, a, u)]
    /\ UnrollRestIdle

InterchangeForUnroll ==
    /\ pc = "start"
    /\ ugen' = [ugen EXCEPT !.out = interchange_for_unroll(ugen.in)]
    /\ pc' = "done"
    /\ UNCHANGED unrollRest

UnrollNext == InterchangeForUnroll

SpecUnroll == UnrollInit /\ [][UnrollNext]_vars

\* Some loop in the window has to go innermost, none behind the window,
\* and some array is forced to private memory.
Reverted ==
    LET g == ugen.in
    IN /\ \E i \in g.shared_len..(g.shared_len + g.window - 1) : g.unroll[i]
       /\ ~\E i \in (g.shared_len + g.window)..(g.thread_tiled_len - 1) :
              g.unroll[i]
       /\ g.any_force_private

\* C25 as stated: when the private mapping is reverted because of a forced
\* private array, no group of the kernel has a private tile afterwards, the
\* schedule is not permuted and first_unroll is -1.
C25_Original ==
    (pc = "done" /\ Reverted) =>
        /\ \A i \in DOMAIN ugen.out.array : ~ugen.out.array[i].private_tile
        /\ ugen.out.sched = ugen.in.sched
        /\ ugen.out.first_unroll = -1

\* C25: when the private mapping is reverted because of a forced private
\* array, the groups of the arrays that are not forced private have no
\* private tile afterwards, those of the forced private arrays keep
\* theirs, the schedule is not permuted and first_unroll is -1.
C25_PrivateTilesReverted ==
    (pc = "done" /\ Reverted) =>
        /\ DOMAIN ugen.out.array = DOMAIN ugen.in.array
        /\ \A i \in DOMAIN ugen.out.array :
              /\ ugen.out.array[i].force_private
                    = ugen.in.array[i].force_private
              /\ ugen.out.array[i].private_tile <=>
                    /\ ugen.in.array[i].private_tile
                    /\ ugen.in.array[i].force_private
        /\ ugen.out.sched = ugen.in.sched
        /\ ugen.out.first_unroll = -1

C25_Witness ==
    /\ pc = "done"
    /\ Reverted
    /\ \E i, j \in DOMAIN ugen.in.array :
          /\ ugen.in.array[i].private_tile /\ ugen.out.array[i].private_tile
          /\ ugen.in.array[j].private_tile /\ ~ugen.out.array[j].private_tile

\* The schedule is permuted.
Permuted ==
    LET g == ugen.in
    IN /\ \E i \in g.shared_len..(g.shared_len + g.window - 1) : g.unroll[i]
       /\ ~\E i \in (g.shared_len + g.window)..(g.thread_tiled_len - 1) :
              g.unroll[i]
       /\ ~g.any_force_private

\* The output position of input dimension i.
PermOf(i) == CHOOSE o \in DOMAIN ugen.out.sched : ugen.out.sched[o] = i

\* C27 as stated: when the schedule is permuted, the permutation is a
\* bijection that fixes the first shared_len positions, keeps the order of
\* the unmarked dimensions and puts all marked dimensions, which all lie in
\* the window, after them in their order, and first_unroll is the number
\* of unmarked dimensions from shared_len on; otherwise the schedule is
\* unchanged and first_unroll is -1.
C27_Original ==
    pc = "done" =>
        LET g == ugen.in
            dims == 0..(g.thread_tiled_len - 1)
            wend == g.shared_len + g.window
        IN IF Permuted
           THEN /\ {ugen.out.sched[o] : o \in dims} = dims
                /\ \A i \in 0..(g.shared_len - 1) : PermOf(i) = i
                /\ \A i, k \in dims :
                      (i < k /\ g.unroll[i] = g.unroll[k]) =>
                         PermOf(i) < PermOf(k)
                /\ \A i, k \in dims :
                      (~g.unroll[i] /\ g.unroll[k]) => PermOf(i) < PermOf(k)
                /\ \A k \in dims : g.unroll[k] => k \in g.shared_len..(wend - 1)
                /\ ugen.out.first_unroll =
                      Cardinality({i \in dims :
                                      i >= g.shared_len /\ ~g.unroll[i]})
           ELSE ugen.out.sched = g.sched /\ ugen.out.first_unroll = -1

\* C27: when the schedule is permuted, the permutation is a bijection that
\* fixes the first shared_len positions, marked or not; from shared_len on
\* it keeps the order of the unmarked dimensions and puts the marked ones,
\* which there all lie in the window, after them in their order, and
\* first_unroll is the number of unmarked dimensions from shared_len on;
\* otherwise the schedule is unchanged and first_unroll is -1.
C27_Permutation ==
    pc = "done" =>
        LET g == ugen.in
            dims == 0..(g.thread_tiled_len - 1)
            inner == g.shared_len..(g.thread_tiled_len - 1)
            wend == g.shared_len + g.window
        IN IF Permuted
           THEN /\ {ugen.out.sched[o] : o \in dims} = dims
                /\ \A i \in 0..(g.shared_len - 1) : PermOf(i) = i
                /\ \A i, k \in inner :
                      (i < k /\ g.unroll[i] = g.unroll[k]) =>
                         PermOf(i) < PermOf(k)
                /\ \A i, k \in inner :
                      (~g.unroll[i] /\ g.unroll[k]) => PermOf(i) < PermOf(k)
                /\ \A k \in inner : g.unroll[k] => k < wend
                /\ ugen.out.first_unroll =
                      Cardinality({i \in inner : ~g.unroll[i]})
                /\ ugen.out.array = g.array
           ELSE ugen.out.sched = g.sched /\ ugen.out.first_unroll = -1

C27_Witness ==
    /\ pc = "done"
    /\ Permuted
    /\ ugen.out.sched # ugen.in.sched
    /\ ugen.in.shared_len >= 1
    /\ ugen.in.unroll[0]
    /\ ugen.out.first_unroll >= 1

(***************************************************************************)
(* create_kernel_leaf: the kind of statement at a leaf of the kernel AST.  *)
(***************************************************************************)

\* The maps of the schedule at a leaf, by the name of the input tuple and,
\* for a copy, the reference group attached to its identifier.
LeafMaps ==
    {[name |-> n, group |-> g] : n \in {"read", "write"}, g \in 1..MaxArrays}
    \cup {[name |-> n, group |-> 0] : n \in {"sync", "S_1", "S_2", "S_3"}}

LeafSchedules == {S \in SUBSET LeafMaps : Cardinality(S) <= MaxSpaces}

\* stmt->u.c.read = !strcmp(type, "read")
is_read_always(type) == TRUE
is_read(type) == type = "read"

\* create_access_leaf with attach_copy_stmt
create_access_leaf(map) ==
    [type |-> "ppcg_kernel_copy", read |-> is_read(map.name),
     array |-> map.group]

create_sync_leaf(map) ==
    [type |-> "ppcg_kernel_sync", read |-> FALSE, array |-> 0]

create_domain_leaf(sched) ==
    [type |-> "ppcg_kernel_domain", read |-> FALSE, array |-> 0]

create_kernel_leaf(sched) ==
    IF Cardinality(sched) # 1 THEN create_domain_leaf(sched)
    ELSE LET map == CHOOSE m \in sched : TRUE
         IN IF map.name = "read" \/ map.name = "write"
            THEN create_access_leaf(map)
            ELSE IF map.name = "sync" THEN create_sync_leaf(map)
            ELSE create_domain_leaf({map})

LeafInit ==
    /\ pc = "start"
    /\ \E S \in LeafSchedules : ast_leaf = [schedule |-> S, stmt |-> <<>>]
    /\ LeafRestIdle

CreateKernelLeaf ==
    /\ pc = "start"
    /\ ast_leaf' =
           [ast_leaf EXCEPT !.stmt = create_kernel_leaf(ast_leaf.schedule)]
    /\ pc' = "done"
    /\ UNCHANGED leafRest

LeafNext == CreateKernelLeaf

SpecLeaf == LeafInit /\ [][LeafNext]_vars

\* C26: a schedule with a number of spaces other than one gets the domain
\* leaf; a single space named read or write gets a copy statement that is
\* a read exactly for "read"; a single space named sync gets a sync
\* statement; any other single space gets the domain leaf.
C26_LeafDispatch ==
    pc = "done" =>
        LET names == {m.name : m \in ast_leaf.schedule}
            n == Cardinality(ast_leaf.schedule)
            stmt == ast_leaf.stmt
        IN /\ n # 1 => stmt.type = "ppcg_kernel_domain"
           /\ (n = 1 /\ names \subseteq {"read", "write"}) =>
                 /\ stmt.type = "ppcg_kernel_copy"
                 /\ stmt.read <=> names = {"read"}
                 /\ \E m \in ast_leaf.schedule : stmt.array = m.group
           /\ (n = 1 /\ names = {"sync"}) => stmt.type = "ppcg_kernel_sync"
           /\ (n = 1 /\ names \cap {"read", "write", "sync"} = {}) =>
                 stmt.type = "ppcg_kernel_domain"

C26_Witness ==
    /\ pc = "done"
    /\ Cardinality(ast_leaf.schedule) = 1
    /\ \E m \in ast_leaf.schedule : m.name = "write"
    /\ ast_leaf.stmt.type = "ppcg_kernel_copy"
    /\ ~ast_leaf.stmt.read

(***************************************************************************)
(* The block and thread identifiers: the filters of create_kernel and the  *)
(* tiled schedules of create_host_leaf.                                    *)
(***************************************************************************)

\* tile_band: the band is tiled without scaling the tile loops and with
\* the point loops shifted to start at zero.
tile_band(s, size) == [tile |-> s \div size, point |-> s % size]

\* The image of the point "in" under the relation built by tile(): the
\* tl coordinates from f on are replaced by their quotients by "size" and
\* followed by their remainders.
tile_map(in, f, tl, size) ==
    [d \in 1..(Len(in) + tl) |->
        LET k == d - 1
        IN IF k < f THEN in[k + 1]
           ELSE IF k < f + tl THEN in[k + 1] \div size[k - f + 1]
           ELSE IF k < f + 2 * tl THEN in[k - tl + 1] % size[k - f - tl + 1]
           ELSE in[k - tl + 1]]

\* The image of the point "in" under the relation built by wrap(): the
\* wl coordinates from f on are kept and followed by their remainders.
wrap_map(in, f, wl, size) ==
    [d \in 1..(Len(in) + wl) |->
        LET k == d - 1
        IN IF k < f + wl THEN in[k + 1]
           ELSE IF k < f + 2 * wl THEN in[k - wl + 1] % size[k - f - wl + 1]
           ELSE in[k - wl + 1]]

\* tile_schedule: the band is tiled over the tile sizes and the tile loops
\* are tiled or wrapped over the blocks.
tile_schedule(g, pt) ==
    LET tiling == tile_map(pt, g.tile_first, g.tile_len, g.tile_size)
    IN IF g.wrap
       THEN wrap_map(tiling, g.tile_first, g.n_grid, g.grid_dim)
       ELSE tile_map(tiling, g.tile_first, g.n_grid, g.grid_dim)

\* parametrization: the parameters are equated to the n coordinates from
\* position "pos" on.
parametrization(pt, pos, n) == SubSeq(pt, pos + 1, pos + n)

\* scale_tile_loops: the factor of coordinate i of the tiled schedule.
scale_factor(g, i) ==
    IF ~g.scale_tile_loops THEN 1
    ELSE IF i >= g.tile_first /\ i < g.tile_first + g.n_grid
    THEN g.tile_size[i - g.tile_first + 1]
            * (IF g.wrap THEN 1 ELSE g.grid_dim[i - g.tile_first + 1])
    ELSE IF i >= g.tile_first + g.n_grid
            /\ i < g.tile_first + g.n_grid + g.tile_len
    THEN g.tile_size[i - (g.tile_first + g.n_grid) + 1]
    ELSE 1

scale_tile_loops(g, pt) ==
    [d \in 1..Len(pt) |-> scale_factor(g, d - 1) * pt[d]]

\* thread_tile_schedule: the point loops are tiled or wrapped over
\* kernel->block_dim.
thread_tile_conf(g, pt, sl) ==
    IF g.wrap THEN wrap_map(pt, sl, g.n_block, g.block_conf)
    ELSE tile_map(pt, sl, g.n_block, g.block_conf)
thread_tile(g, pt, sl) ==
    IF g.wrap THEN wrap_map(pt, sl, g.n_block, g.block_dim)
    ELSE tile_map(pt, sl, g.n_block, g.block_dim)

\* The statement instances of the kernel by the value of the band member;
\* the host loops are fixed at the launch.
IdDomains == SetsUpTo(0..MaxPoint, MaxIdInst) \ {{}}

\* gen->sched at instance s.
GenSched(g, s) == [d \in 1..(g.tile_first + 1) |->
                      IF d <= g.tile_first THEN 0 ELSE s]

IdInit ==
    /\ pc = "start"
    /\ \E w, sc_ \in BOOLEAN, tf \in 0..MaxHost, ts \in 1..MaxTileSize,
          gd \in 1..MaxGridDim, bd \in 1..MaxBlockDim, dom \in IdDomains :
          idmap = [wrap |-> w, scale_tile_loops |-> sc_, tile_first |-> tf,
                   tile_len |-> 1, n_grid |-> 1, n_block |-> 1,
                   tile_size |-> <<ts>>, grid_dim |-> <<gd>>,
                   block_conf |-> <<bd>>, block_dim |-> <<bd>>,
                   domain |-> dom,
                   block_filter |-> <<>>, thread_filter |-> <<>>,
                   block_ids |-> <<>>, thread_ids |-> <<>>]
    /\ IdRestIdle

\* create_kernel: the band is tiled, the block filter and the thread
\* filter are computed from the tile band and the point band, and
\* extract_block_size stores the effective block size in
\* kernel->block_dim.
CreateKernelFilters ==
    /\ pc = "start"
    /\ LET g == idmap
           tf == [s \in g.domain |->
                     set_schedule_modulo(
                         <<tile_band(s, g.tile_size[1]).point>>,
                         g.block_conf)]
       IN idmap' = [g EXCEPT
             !.block_filter =
                 [s \in g.domain |->
                     set_schedule_modulo(
                         <<tile_band(s, g.tile_size[1]).tile>>,
                         g.grid_dim)],
             !.thread_filter = tf,
             !.block_dim = extract_size({tf[s] : s \in g.domain}, g.n_block)]
    /\ pc' = "kernel"
    /\ UNCHANGED idRest

\* create_host_leaf: tile_schedule, parametrize_tiled_schedule,
\* scale_tile_loops and thread_tile_schedule give the block and thread
\* identifiers of each instance.
CreateHostLeafSchedules ==
    /\ pc = "kernel"
    /\ LET g == idmap
           sl == g.tile_first + g.tile_len + g.n_grid
           tiled == [s \in g.domain |-> tile_schedule(g, GenSched(g, s))]
           local == [s \in g.domain |->
                        thread_tile(g, scale_tile_loops(g, tiled[s]), sl)]
       IN idmap' = [g EXCEPT
             !.block_ids =
                 [s \in g.domain |->
                     parametrization(tiled[s], g.tile_first + g.n_grid,
                                     g.n_grid)],
             !.thread_ids =
                 [s \in g.domain |->
                     parametrization(local[s],
                         g.tile_first + g.tile_len + g.n_grid + g.n_block,
                         g.n_block)]]
    /\ pc' = "leaf"
    /\ UNCHANGED idRest

IdNext == CreateKernelFilters \/ CreateHostLeafSchedules

SpecIds == IdInit /\ [][IdNext]_vars

\* C29 (as stated): with wrap and with tile the block identifier of an
\* instance is the tile band coordinate modulo the configured grid size
\* and the thread identifier is the point band coordinate modulo the
\* configured block size; the filters of create_kernel agree with the
\* parameters equated by the tiled schedules.
C29_Original ==
    pc = "leaf" =>
        \A s \in idmap.domain :
            LET b == tile_band(s, idmap.tile_size[1])
            IN /\ idmap.block_ids[s] = <<b.tile % idmap.grid_dim[1]>>
               /\ idmap.block_filter[s] = idmap.block_ids[s]
               /\ idmap.thread_ids[s] = <<b.point % idmap.block_conf[1]>>
               /\ idmap.thread_filter[s] = idmap.thread_ids[s]

\* C29 (amended): with wrap and with tile the block identifier is the tile
\* band coordinate modulo the configured grid size, in the block filter
\* and in the tiled schedule alike.  The thread filter takes the point
\* band coordinate modulo the configured block size; the tiled schedule
\* takes it modulo the effective block size that extract_block_size stored
\* in kernel->block_dim.  The two agree for every instance whose point
\* band coordinate is below the configured block size.
C29_IdsAgree ==
    pc = "leaf" =>
        \A s \in idmap.domain :
            LET b == tile_band(s, idmap.tile_size[1])
            IN /\ idmap.block_ids[s] = <<b.tile % idmap.grid_dim[1]>>
               /\ idmap.block_filter[s] = idmap.block_ids[s]
               /\ idmap.thread_filter[s] = <<b.point % idmap.block_conf[1]>>
               /\ idmap.thread_ids[s] = <<b.point % idmap.block_dim[1]>>
               /\ b.point < idmap.block_conf[1] =>
                     idmap.thread_ids[s] = idmap.thread_filter[s]

\* An instance whose thread identifier in the tiled schedule differs from
\* the one of the thread filter.
C29_Witness ==
    /\ pc = "leaf"
    /\ ~idmap.wrap
    /\ idmap.tile_first = 1
    /\ idmap.block_dim # idmap.block_conf
    /\ idmap.block_filter = idmap.block_ids
    /\ \E s \in idmap.domain :
          idmap.thread_ids[s] # idmap.thread_filter[s]

====
